---- MODULE Spec2Model ----
(***************************************************************************)
(* guiorder: the editable configuration aggregate (GuiAnalysis), its       *)
(* validity predicates, and its conversion from (Import) and to (Export)   *)
(* the engine's configuration document (gorder::input::Analysis).          *)
(*                                                                         *)
(* Encoding.                                                               *)
(*  - Rust String: a TLA+ string; "" is the empty string.                  *)
(*  - Option<T>: None is << >>, Some(x) is <<x>>.                          *)
(*  - f32 lengths: integers in units of 0.1 nm (2.5 nm is 25);             *)
(*    f32::INFINITY / NEG_INFINITY are the integers INFINITY / -INFINITY,  *)
(*    larger in magnitude than every finite value of the model.            *)
(*  - enum variants: strings carrying the variant's name.                  *)
(*  - enum variants with payload: records with a "kind" field.             *)
(*  - Frequency: <<"Once">> or <<"Every", n>>.                             *)
(*  - src/src/main.rs holds a second, older copy of several predicates of  *)
(*    the aggregate; the copies are modelled under the prefix main_.       *)
(***************************************************************************)
EXTENDS Integers, Sequences, FiniteSets, TLC

VARIABLES gui, doc, imp, exp, running, workers

vars == <<gui, doc, imp, exp, running, workers>>

-----------------------------------------------------------------------------
(* Bounds of the model.                                                    *)

\* largest radius / bin size a drag value is set to (besides the defaults)
MaxRadius == 1

\* longest list of NDX / trajectory files
MaxFiles == 3

\* largest N the drag value of "every Nth frame" is set to
MaxN == 3

\* the finite bounds of a span are dragged to -MaxCoordinate..0, the times of
\* the frame selection and the bounds of a manual dimension to 0..MaxCoordinate
MaxCoordinate == 1

-----------------------------------------------------------------------------
(* Option<T>, strings, numbers                                             *)

None == << >>

Some(x) == <<x>>

is_some(o) == Len(o) = 1

is_none(o) == Len(o) = 0

unwrap(o) == o[1]

unwrap_or(o, d) == IF Len(o) = 1 THEN o[1] ELSE d

is_empty(s) == s = ""

INFINITY == 1000000

NEG_INFINITY == 0 - INFINITY

\* the strings a text field is set to
Strings == {"", "a"}

\* the values a radius or bin-size drag value (range 0..=MAX) is set to
Radii == 0..MaxRadius

\* Vec<String>::iter().any(|file| file.is_empty())
any_empty(files) == \E i \in 1..Len(files) : files[i] = ""

Once == <<"Once">>

Every(n) == <<"Every", n>>

Axes == {"X", "Y", "Z"}

-----------------------------------------------------------------------------
(* Defaults of the parameter blocks                                        *)

DefaultAnalysisTypeParams ==
    [aa_params |-> [heavy_atoms |-> "", hydrogens |-> ""],
     ua_params |-> [saturated |-> "", unsaturated |-> "", ignore |-> ""],
     cg_params |-> [beads |-> ""]]

DefaultOutputFiles ==
    [output_yaml |-> "", output_csv |-> "", output_tab |-> "", output_xvg |-> ""]

DefaultLeafletLocalParams == [membrane |-> "", heads |-> "", radius |-> 25]

DefaultLeafletClassificationParams ==
    [global_params |-> [membrane |-> "", heads |-> ""],
     local_params |-> DefaultLeafletLocalParams,
     individual_params |-> [heads |-> "", methyls |-> ""],
     clustering_params |-> [heads |-> ""],
     from_file_params |-> [file |-> ""],
     from_ndx_params |-> [heads |-> "", ndx |-> << >>,
                          upper_leaflet |-> "", lower_leaflet |-> ""],
     frequency |-> Every(1),
     membrane_normal |-> None]

DefaultDynamicNormalParams == [heads |-> "", radius |-> 20]

DefaultManualDimensions == [start |-> 0, end |-> 100]

DefaultOrderMapsParams ==
    [calculate_maps |-> FALSE,
     output_directory |-> "",
     plane |-> None,
     bin_size |-> <<1, 1>>,
     dimensions |-> <<"Auto", "Auto">>,
     x_manual |-> DefaultManualDimensions,
     y_manual |-> DefaultManualDimensions,
     min_samples |-> 1]

DefaultEstimateErrorParams ==
    [estimate_error |-> FALSE, n_blocks |-> 5, output_convergence |-> ""]

DefaultFrameSelectionParams == [begin |-> 0, end |-> INFINITY, step |-> 1]

DefaultOtherParams ==
    [min_samples |-> 1, n_threads |-> 1, handle_pbc |-> TRUE,
     overwrite |-> FALSE, silent |-> FALSE]

DefaultCuboidParams ==
    [minx |-> NEG_INFINITY, maxx |-> INFINITY,
     miny |-> NEG_INFINITY, maxy |-> INFINITY,
     minz |-> NEG_INFINITY, maxz |-> INFINITY]

DefaultCylinderParams ==
    [radius |-> 50, start |-> NEG_INFINITY, end |-> INFINITY, orientation |-> "Z"]

DefaultSphereParams == [radius |-> 50]

DefaultVector3D == <<0, 0, 0>>

DefaultGeomSelectionParams ==
    [cuboid |-> DefaultCuboidParams,
     cylinder |-> DefaultCylinderParams,
     sphere |-> DefaultSphereParams,
     reference_type |-> "Point",
     ref_point |-> DefaultVector3D,
     ref_selection |-> ""]

\* #[derive(Default)] of GuiAnalysis
DefaultGuiAnalysis ==
    [structure |-> "",
     trajectory |-> << >>,
     ndx |-> "",
     bonds |-> "",
     analysis_type |-> "AAOrder",
     analysis_type_params |-> DefaultAnalysisTypeParams,
     output |-> DefaultOutputFiles,
     leaflet_classification_method |-> "None",
     leaflet_classification_params |-> DefaultLeafletClassificationParams,
     membrane_normal |-> "Z",
     dynamic_normal_params |-> DefaultDynamicNormalParams,
     from_file_normals |-> "",
     ordermaps_params |-> DefaultOrderMapsParams,
     estimate_error_params |-> DefaultEstimateErrorParams,
     frame_selection_params |-> DefaultFrameSelectionParams,
     other_params |-> DefaultOtherParams,
     geom_selection |-> "None",
     geom_selection_params |-> DefaultGeomSelectionParams]

-----------------------------------------------------------------------------
(* Validity predicates of the parameter groups                             *)

LeafletGlobalParams_sanity_check(p) ==
    ~is_empty(p.membrane) /\ ~is_empty(p.heads)

LeafletLocalParams_sanity_check(p) ==
    ~is_empty(p.membrane) /\ ~is_empty(p.heads) /\ p.radius > 0

LeafletIndividualParams_sanity_check(p) ==
    ~is_empty(p.heads) /\ ~is_empty(p.methyls)

LeafletClusteringParams_sanity_check(p) == ~is_empty(p.heads)

LeafletFromFileParams_sanity_check(p) == ~is_empty(p.file)

LeafletFromNdxParams_sanity_check(p) ==
    /\ ~is_empty(p.heads)
    /\ ~any_empty(p.ndx)
    /\ ~is_empty(p.upper_leaflet)
    /\ ~is_empty(p.lower_leaflet)

\* the first match of check_leaflets_sanity: the active method's own block
leaflet_method_fields_ok(g) ==
    LET m == g.leaflet_classification_method
        p == g.leaflet_classification_params
    IN CASE m = "None" -> TRUE
         [] m = "Global" -> LeafletGlobalParams_sanity_check(p.global_params)
         [] m = "Local" -> LeafletLocalParams_sanity_check(p.local_params)
         [] m = "Individual" -> LeafletIndividualParams_sanity_check(p.individual_params)
         [] m = "Clustering" -> LeafletClusteringParams_sanity_check(p.clustering_params)
         [] m = "FromFile" -> LeafletFromFileParams_sanity_check(p.from_file_params)
         [] m = "FromNdx" -> LeafletFromNdxParams_sanity_check(p.from_ndx_params)

\* the second match, never asking for an override
leaflet_normal_ok_never(g) == TRUE

\* the second match of check_leaflets_sanity: the override a dynamic normal needs
leaflet_normal_ok(g) ==
    IF g.leaflet_classification_method \in {"Global", "Local", "Individual"}
    THEN \/ g.membrane_normal # "Dynamic"
         \/ is_some(g.leaflet_classification_params.membrane_normal)
    ELSE TRUE

check_leaflets_sanity(g) == leaflet_method_fields_ok(g) /\ leaflet_normal_ok(g)

check_membrane_normal_sanity(g) ==
    CASE g.membrane_normal = "Dynamic" ->
            ~is_empty(g.dynamic_normal_params.heads) /\ g.dynamic_normal_params.radius > 0
      [] g.membrane_normal = "FromFile" -> ~is_empty(g.from_file_normals)
      [] OTHER -> TRUE

check_analysis_params_sanity(g) ==
    CASE g.analysis_type = "AAOrder" ->
            /\ ~is_empty(g.analysis_type_params.aa_params.heavy_atoms)
            /\ ~is_empty(g.analysis_type_params.aa_params.hydrogens)
      [] g.analysis_type = "CGOrder" -> ~is_empty(g.analysis_type_params.cg_params.beads)
      [] g.analysis_type = "UAOrder" -> TRUE

CylinderParams_sanity_check(p) == p.radius > 0

\* a sphere accepted whatever its radius
SphereParams_sanity_check_any(p) == TRUE

SphereParams_sanity_check(p) == p.radius > 0

check_geometry_sanity(g) ==
    LET shape_valid ==
            CASE g.geom_selection \in {"None", "Cuboid"} -> TRUE
              [] g.geom_selection = "Cylinder" ->
                    CylinderParams_sanity_check(g.geom_selection_params.cylinder)
              [] g.geom_selection = "Sphere" ->
                    SphereParams_sanity_check(g.geom_selection_params.sphere)
        ref_selection_valid ==
            IF g.geom_selection = "None" THEN TRUE
            ELSE \/ g.geom_selection_params.reference_type # "Selection"
                 \/ ~is_empty(g.geom_selection_params.ref_selection)
    IN shape_valid /\ ref_selection_valid

\* the test of the ordermap fields without the test of calculate_maps
check_ordermaps_sanity_ungated(g) ==
    /\ ~is_empty(g.ordermaps_params.output_directory)
    /\ (is_some(g.ordermaps_params.plane) \/ g.membrane_normal # "Dynamic")
    /\ g.ordermaps_params.bin_size[1] > 0
    /\ g.ordermaps_params.bin_size[2] > 0

\* GuiAnalysis::check_ordermaps_sanity
check_ordermaps_sanity(g) ==
    \/ ~g.ordermaps_params.calculate_maps
    \/ /\ ~is_empty(g.ordermaps_params.output_directory)
       /\ (is_some(g.ordermaps_params.plane) \/ g.membrane_normal # "Dynamic")
       /\ g.ordermaps_params.bin_size[1] > 0
       /\ g.ordermaps_params.bin_size[2] > 0

-----------------------------------------------------------------------------
(* The copies of the predicates in src/src/main.rs                         *)

main_LeafletLocalParams_sanity_check(p) ==
    ~is_empty(p.membrane) /\ ~is_empty(p.heads)

main_check_leaflets_sanity(g) ==
    LET m == g.leaflet_classification_method
        p == g.leaflet_classification_params
    IN /\ CASE m = "None" -> TRUE
            [] m = "Global" -> LeafletGlobalParams_sanity_check(p.global_params)
            [] m = "Local" -> main_LeafletLocalParams_sanity_check(p.local_params)
            [] m = "Individual" -> LeafletIndividualParams_sanity_check(p.individual_params)
            [] m = "Clustering" -> LeafletClusteringParams_sanity_check(p.clustering_params)
            [] m = "FromFile" -> LeafletFromFileParams_sanity_check(p.from_file_params)
            [] m = "FromNdx" -> LeafletFromNdxParams_sanity_check(p.from_ndx_params)
       /\ IF m \in {"Global", "Local", "Individual"}
          THEN g.membrane_normal # "Dynamic" \/ is_some(p.membrane_normal)
          ELSE TRUE

main_check_membrane_normal_sanity(g) ==
    IF g.membrane_normal = "Dynamic"
    THEN ~is_empty(g.dynamic_normal_params.heads)
    ELSE TRUE

main_check_analysis_params_sanity(g) ==
    CASE g.analysis_type = "AAOrder" ->
            /\ ~is_empty(g.analysis_type_params.aa_params.heavy_atoms)
            /\ ~is_empty(g.analysis_type_params.aa_params.hydrogens)
      [] g.analysis_type = "CGOrder" -> ~is_empty(g.analysis_type_params.cg_params.beads)
      [] g.analysis_type = "UAOrder" ->
            /\ ~is_empty(g.analysis_type_params.ua_params.saturated)
            /\ ~is_empty(g.analysis_type_params.ua_params.unsaturated)

main_check_ordermaps_sanity(g) ==
    \/ ~g.ordermaps_params.calculate_maps
    \/ /\ ~is_empty(g.ordermaps_params.output_directory)
       /\ (is_some(g.ordermaps_params.plane) \/ g.membrane_normal # "Dynamic")

\* GuiAnalysis::check_sanity, its calls bound to the predicates of the modules
check_sanity(g) ==
    /\ check_leaflets_sanity(g)
    /\ check_analysis_params_sanity(g)
    /\ ~is_empty(g.structure)
    /\ ~any_empty(g.trajectory)
    /\ ~is_empty(g.output.output_yaml)
    /\ check_membrane_normal_sanity(g)
    /\ check_ordermaps_sanity(g)

\* GuiAnalysis::check_sanity, its calls bound to the copies of main.rs
main_check_sanity(g) ==
    /\ main_check_leaflets_sanity(g)
    /\ main_check_analysis_params_sanity(g)
    /\ ~is_empty(g.structure)
    /\ ~any_empty(g.trajectory)
    /\ ~is_empty(g.output.output_yaml)
    /\ main_check_membrane_normal_sanity(g)
    /\ main_check_ordermaps_sanity(g)

-----------------------------------------------------------------------------
(* Results of the conversions                                              *)

Ok(x) == [tag |-> "Ok", value |-> x]

\* kind: the variant of ConversionError; detail: the wrapped engine message
Err(kind, detail) == [tag |-> "Err", error |-> [kind |-> kind, detail |-> detail]]

\* a panic of the conversion (an unwrap() of an Err)
Panic == [tag |-> "Panic"]

is_ok(r) == r.tag = "Ok"

is_err(r) == r.tag = "Err"

-----------------------------------------------------------------------------
(* Import: TryFrom<gorder::input::Analysis> for GuiAnalysis                *)

\* impl From<Axis> for MembraneNormal
MembraneNormal_from_axis(axis) == axis

\* the conversion of the normal, naming the wrong error for an inline map
MembraneNormal_try_from_misnamed(value) ==
    CASE value.kind = "Static" -> Ok(value.axis)
      [] value.kind = "Dynamic" -> Ok("Dynamic")
      [] value.kind = "FromFile" -> Ok("FromFile")
      [] value.kind = "FromMap" -> Err("FromMapLeaflets", "")

\* impl TryFrom<gorder::input::MembraneNormal> for MembraneNormal
MembraneNormal_try_from(value) ==
    CASE value.kind = "Static" -> Ok(MembraneNormal_from_axis(value.axis))
      [] value.kind = "Dynamic" -> Ok("Dynamic")
      [] value.kind = "FromFile" -> Ok("FromFile")
      [] value.kind = "FromMap" -> Err("FromMapNormals", "")

\* impl TryFrom<gorder::input::MembraneNormal> for DynamicNormalParams
DynamicNormalParams_try_from(value) ==
    CASE value.kind = "Dynamic" -> Ok([heads |-> value.heads, radius |-> value.radius])
      [] value.kind = "FromMap" -> Err("FromMapNormals", "")
      [] value.kind = "Static" -> Ok(DefaultDynamicNormalParams)
      [] value.kind = "FromFile" -> Ok(DefaultDynamicNormalParams)

\* impl TryFrom<Option<gorder::input::LeafletClassification>> for LeafletClassification
LeafletClassification_try_from(value) ==
    IF is_some(value)
    THEN IF unwrap(value).kind = "FromMap"
         THEN Err("FromMapLeaflets", "")
         ELSE Ok(unwrap(value).kind)
    ELSE Ok("None")

\* the override of the document dropped
convert_axis_option_dropped(axis) == None

\* fn convert_axis_option
convert_axis_option(axis) ==
    IF is_none(axis) THEN None ELSE Some(MembraneNormal_from_axis(unwrap(axis)))

\* impl TryFrom<Option<gorder::input::LeafletClassification>> for LeafletClassificationParams
LeafletClassificationParams_try_from(value) ==
    IF is_some(value)
    THEN LET params == unwrap(value)
             D == DefaultLeafletClassificationParams
         IN CASE params.kind = "Global" ->
                    Ok([D EXCEPT
                        !.global_params = [membrane |-> params.membrane,
                                           heads |-> params.heads],
                        !.frequency = params.frequency,
                        !.membrane_normal = convert_axis_option(params.membrane_normal)])
              [] params.kind = "Local" ->
                    Ok([D EXCEPT
                        !.local_params = [membrane |-> params.membrane,
                                          heads |-> params.heads,
                                          radius |-> params.radius],
                        !.frequency = params.frequency,
                        !.membrane_normal = convert_axis_option(params.membrane_normal)])
              [] params.kind = "Individual" ->
                    Ok([D EXCEPT
                        !.individual_params = [heads |-> params.heads,
                                               methyls |-> params.methyls],
                        !.frequency = params.frequency,
                        !.membrane_normal = convert_axis_option(params.membrane_normal)])
              [] params.kind = "Clustering" ->
                    Ok([D EXCEPT
                        !.clustering_params = [heads |-> params.heads],
                        !.frequency = params.frequency])
              [] params.kind = "FromFile" ->
                    Ok([D EXCEPT
                        !.from_file_params = [file |-> params.file],
                        !.frequency = params.frequency])
              [] params.kind = "FromNdx" ->
                    Ok([D EXCEPT
                        !.from_ndx_params = [ndx |-> params.ndx,
                                             heads |-> params.heads,
                                             upper_leaflet |-> params.upper_leaflet,
                                             lower_leaflet |-> params.lower_leaflet],
                        !.frequency = params.frequency])
              [] params.kind = "FromMap" -> Err("FromMapLeaflets", "")
    ELSE Ok(DefaultLeafletClassificationParams)

\* every analysis type of a document taken for the coarse-grained one
AnalysisType_from_coarse(value) == "CGOrder"

\* impl From<gorder::input::AnalysisType> for AnalysisType
AnalysisType_from(value) == value.kind

\* impl From<gorder::input::AnalysisType> for AnalysisTypeParams
AnalysisTypeParams_from(value) ==
    CASE value.kind = "AAOrder" ->
            [DefaultAnalysisTypeParams EXCEPT
                !.aa_params = [heavy_atoms |-> value.heavy_atoms,
                               hydrogens |-> value.hydrogens]]
      [] value.kind = "CGOrder" ->
            [DefaultAnalysisTypeParams EXCEPT !.cg_params = [beads |-> value.beads]]
      [] value.kind = "UAOrder" ->
            [DefaultAnalysisTypeParams EXCEPT
                !.ua_params = [saturated |-> unwrap_or(value.saturated, ""),
                               unsaturated |-> unwrap_or(value.unsaturated, ""),
                               ignore |-> unwrap_or(value.ignore, "")]]

\* impl From<&Analysis> for OutputFiles
OutputFiles_from(value) ==
    [output_yaml |-> value.output_yaml,
     output_csv |-> unwrap_or(value.output_csv, ""),
     output_tab |-> unwrap_or(value.output_tab, ""),
     output_xvg |-> unwrap_or(value.output_xvg, "")]

\* impl From<Option<gorder::input::EstimateError>> for EstimateErrorParams
EstimateErrorParams_from(value) ==
    IF is_none(value)
    THEN [DefaultEstimateErrorParams EXCEPT !.estimate_error = FALSE]
    ELSE [estimate_error |-> TRUE,
          n_blocks |-> unwrap(value).n_blocks,
          output_convergence |-> unwrap_or(unwrap(value).output_convergence, "")]

\* impl From<Option<gorder::input::Geometry>> for GeomSelection
GeomSelection_from(value) == IF is_none(value) THEN "None" ELSE unwrap(value).kind

\* impl From<gorder::input::GeomReference> for GeomReferenceType
GeomReferenceType_from(reference) == reference.kind

get_static_reference_point(reference) ==
    IF reference.kind = "Point" THEN reference.point ELSE DefaultVector3D

get_reference_selection(reference) ==
    IF reference.kind = "Selection" THEN reference.selection ELSE ""

\* impl From<Option<gorder::input::Geometry>> for GeomSelectionParams
GeomSelectionParams_from(value) ==
    IF is_none(value) THEN DefaultGeomSelectionParams
    ELSE LET params == unwrap(value)
             D == [DefaultGeomSelectionParams EXCEPT
                      !.reference_type = GeomReferenceType_from(params.reference),
                      !.ref_point = get_static_reference_point(params.reference),
                      !.ref_selection = get_reference_selection(params.reference)]
         IN CASE params.kind = "Cuboid" ->
                    [D EXCEPT !.cuboid = [minx |-> params.xdim[1], maxx |-> params.xdim[2],
                                          miny |-> params.ydim[1], maxy |-> params.ydim[2],
                                          minz |-> params.zdim[1], maxz |-> params.zdim[2]]]
              [] params.kind = "Cylinder" ->
                    [D EXCEPT !.cylinder = [radius |-> params.radius,
                                            start |-> params.span[1],
                                            end |-> params.span[2],
                                            orientation |-> params.orientation]]
              [] params.kind = "Sphere" ->
                    [D EXCEPT !.sphere = [radius |-> params.radius]]

\* impl From<gorder::input::GridSpan> for OrderMapDimension
OrderMapDimension_from(span) == span.kind

\* impl From<gorder::input::GridSpan> for ManualDimensions
ManualDimensions_from(span) ==
    IF span.kind = "Auto" THEN DefaultManualDimensions
    ELSE [start |-> span.start, end |-> span.end]

\* impl From<Option<gorder::input::OrderMap>> for OrderMapsParams
OrderMapsParams_from(value) ==
    IF is_none(value)
    THEN [DefaultOrderMapsParams EXCEPT !.calculate_maps = FALSE]
    ELSE LET map == unwrap(value)
         IN [calculate_maps |-> TRUE,
             output_directory |-> unwrap_or(map.output_directory, ""),
             plane |-> map.plane,
             bin_size |-> map.bin_size,
             dimensions |-> <<OrderMapDimension_from(map.dim[1]),
                              OrderMapDimension_from(map.dim[2])>>,
             x_manual |-> ManualDimensions_from(map.dim[1]),
             y_manual |-> ManualDimensions_from(map.dim[2]),
             min_samples |-> map.min_samples]

\* impl From<&gorder::input::Analysis> for OtherParams
OtherParams_from(value) ==
    [min_samples |-> value.min_samples,
     n_threads |-> value.n_threads,
     handle_pbc |-> value.handle_pbc,
     overwrite |-> value.overwrite,
     silent |-> value.silent]

\* impl TryFrom<Analysis> for GuiAnalysis: the fields are evaluated in the order
\* of the struct literal and the first `?` that meets an Err returns it
GuiAnalysis_try_from(value) ==
    LET membrane_normal == MembraneNormal_try_from(value.membrane_normal)
        dynamic_normal_params == DynamicNormalParams_try_from(value.membrane_normal)
        leaflet_classification_method == LeafletClassification_try_from(value.leaflets)
        leaflet_classification_params == LeafletClassificationParams_try_from(value.leaflets)
    IN CASE ~is_ok(membrane_normal) -> membrane_normal
         [] ~is_ok(dynamic_normal_params) -> dynamic_normal_params
         [] ~is_ok(leaflet_classification_method) -> leaflet_classification_method
         [] ~is_ok(leaflet_classification_params) -> leaflet_classification_params
         [] OTHER ->
            Ok([structure |-> value.structure,
                trajectory |-> value.trajectory,
                ndx |-> unwrap_or(value.index, ""),
                bonds |-> unwrap_or(value.bonds, ""),
                output |-> OutputFiles_from(value),
                analysis_type |-> AnalysisType_from(value.analysis_type),
                analysis_type_params |-> AnalysisTypeParams_from(value.analysis_type),
                membrane_normal |-> membrane_normal.value,
                dynamic_normal_params |-> dynamic_normal_params.value,
                from_file_normals |->
                    IF value.membrane_normal.kind = "FromFile"
                    THEN value.membrane_normal.file ELSE "",
                leaflet_classification_method |-> leaflet_classification_method.value,
                leaflet_classification_params |-> leaflet_classification_params.value,
                estimate_error_params |-> EstimateErrorParams_from(value.estimate_error),
                frame_selection_params |->
                    [begin |-> value.begin, end |-> value.end, step |-> value.step],
                geom_selection |-> GeomSelection_from(value.geometry),
                geom_selection_params |-> GeomSelectionParams_from(value.geometry),
                ordermaps_params |-> OrderMapsParams_from(value.map),
                other_params |-> OtherParams_from(value)])

-----------------------------------------------------------------------------
(* The engine's builders (crate gorder): what they accept                  *)

\* gorder::input::DynamicNormal::new
DynamicNormal_new(heads, radius) ==
    IF radius <= 0 THEN [tag |-> "Err", error |-> "InvalidRadius"]
    ELSE Ok([kind |-> "Dynamic", heads |-> heads, radius |-> radius])

\* gorder::input::EstimateError::new
EstimateError_new(n_blocks, output_convergence) ==
    IF n_blocks < 2 THEN [tag |-> "Err", error |-> "NotEnoughBlocks"]
    ELSE Ok([n_blocks |-> n_blocks, output_convergence |-> output_convergence])

\* gorder::input::Geometry::cuboid
Geometry_cuboid(reference, xdim, ydim, zdim) ==
    IF xdim[1] > xdim[2] \/ ydim[1] > ydim[2] \/ zdim[1] > zdim[2]
    THEN [tag |-> "Err", error |-> "InvalidDimension"]
    ELSE Ok([kind |-> "Cuboid", reference |-> reference,
             xdim |-> xdim, ydim |-> ydim, zdim |-> zdim])

\* gorder::input::Geometry::cylinder
Geometry_cylinder(reference, radius, span, orientation) ==
    CASE radius <= 0 -> [tag |-> "Err", error |-> "InvalidRadius"]
      [] radius > 0 /\ span[1] > span[2] -> [tag |-> "Err", error |-> "InvalidSpan"]
      [] OTHER -> Ok([kind |-> "Cylinder", reference |-> reference, radius |-> radius,
                      span |-> span, orientation |-> orientation])

\* gorder::input::Geometry::sphere
Geometry_sphere(reference, radius) ==
    IF radius <= 0 THEN [tag |-> "Err", error |-> "InvalidRadius"]
    ELSE Ok([kind |-> "Sphere", reference |-> reference, radius |-> radius])

\* gorder::input::GridSpan::manual
GridSpan_manual(start, end) ==
    IF start > end THEN [tag |-> "Err", error |-> "InvalidGridSpan"]
    ELSE Ok([kind |-> "Manual", start |-> start, end |-> end])

\* gorder::input::OrderMapBuilder::build
OrderMapBuilder_build(builder) ==
    CASE builder.bin_size[1] <= 0 \/ builder.bin_size[2] <= 0 ->
            [tag |-> "Err", error |-> "InvalidBinSize"]
      [] builder.bin_size[1] > 0 /\ builder.bin_size[2] > 0 /\ builder.min_samples = 0 ->
            [tag |-> "Err", error |-> "InvalidMinSamples"]
      [] OTHER -> Ok(builder)

\* gorder::input::AnalysisBuilder::build
AnalysisBuilder_build(builder) ==
    CASE builder.begin > builder.end -> [tag |-> "Err", error |-> "InvalidBeginEnd"]
      [] builder.step = 0 -> [tag |-> "Err", error |-> "InvalidStep"]
      [] builder.min_samples = 0 -> [tag |-> "Err", error |-> "InvalidMinSamples"]
      [] builder.n_threads = 0 -> [tag |-> "Err", error |-> "InvalidNThreads"]
      [] /\ is_some(builder.leaflets)
         /\ unwrap(builder.leaflets).kind = "Local"
         /\ unwrap(builder.leaflets).radius <= 0 ->
            [tag |-> "Err", error |-> "InvalidRadius"]
      [] OTHER -> Ok(builder)

\* Result::map_err(|e| ConversionError::<kind>(e.to_string()))
map_err(result, kind) ==
    IF result.tag = "Err" THEN Err(kind, result.error) ELSE result

\* Result::map(|x| Some(x))
map_some(result) ==
    IF result.tag = "Ok" THEN Ok(Some(result.value)) ELSE result

-----------------------------------------------------------------------------
(* Export: TryFrom<&GuiAnalysis> for gorder::input::Analysis               *)

\* a text field that is passed on also when it is empty
non_empty_always(s) == Some(s)

\* Option<&str> of a text field: None when the field is empty
non_empty(s) == IF is_empty(s) THEN None ELSE Some(s)

\* the conversion with `ignore` tested on the emptiness of `unsaturated`
gorder_AnalysisType_from_shared(value) ==
    LET p == value.analysis_type_params
    IN CASE value.analysis_type = "AAOrder" ->
                [kind |-> "AAOrder", heavy_atoms |-> p.aa_params.heavy_atoms,
                 hydrogens |-> p.aa_params.hydrogens]
         [] value.analysis_type = "CGOrder" ->
                [kind |-> "CGOrder", beads |-> p.cg_params.beads]
         [] value.analysis_type = "UAOrder" ->
                [kind |-> "UAOrder",
                 saturated |-> non_empty(p.ua_params.saturated),
                 unsaturated |-> non_empty(p.ua_params.unsaturated),
                 ignore |-> IF is_empty(p.ua_params.unsaturated) THEN None
                            ELSE Some(p.ua_params.ignore)]

\* impl From<&GuiAnalysis> for gorder::input::AnalysisType
gorder_AnalysisType_from(value) ==
    LET p == value.analysis_type_params
    IN CASE value.analysis_type = "AAOrder" ->
                [kind |-> "AAOrder", heavy_atoms |-> p.aa_params.heavy_atoms,
                 hydrogens |-> p.aa_params.hydrogens]
         [] value.analysis_type = "CGOrder" ->
                [kind |-> "CGOrder", beads |-> p.cg_params.beads]
         [] value.analysis_type = "UAOrder" ->
                [kind |-> "UAOrder",
                 saturated |-> non_empty(p.ua_params.saturated),
                 unsaturated |-> non_empty(p.ua_params.unsaturated),
                 ignore |-> non_empty(p.ua_params.ignore)]

\* the conversion of the normal without the call of DynamicNormal::new
gorder_MembraneNormal_try_from_unchecked(value) ==
    CASE value.membrane_normal \in Axes ->
            Ok([kind |-> "Static", axis |-> value.membrane_normal])
      [] value.membrane_normal = "FromFile" ->
            Ok([kind |-> "FromFile", file |-> value.from_file_normals])
      [] value.membrane_normal = "Dynamic" ->
            Ok([kind |-> "Dynamic", heads |-> value.dynamic_normal_params.heads,
                radius |-> value.dynamic_normal_params.radius])

\* impl TryFrom<&GuiAnalysis> for gorder::input::MembraneNormal
gorder_MembraneNormal_try_from(value) ==
    CASE value.membrane_normal \in Axes ->
            Ok([kind |-> "Static", axis |-> value.membrane_normal])
      [] value.membrane_normal = "FromFile" ->
            Ok([kind |-> "FromFile", file |-> value.from_file_normals])
      [] value.membrane_normal = "Dynamic" ->
            map_err(DynamicNormal_new(value.dynamic_normal_params.heads,
                                      value.dynamic_normal_params.radius),
                    "InvalidMembraneNormal")

\* the conversion of the error estimation without the test of the flag
gorder_EstimateError_try_from_unflagged(value) ==
    map_some(map_err(EstimateError_new(value.n_blocks,
                                       non_empty(value.output_convergence)),
                     "InvalidEstimateError"))

\* impl TryFrom<&EstimateErrorParams> for Option<gorder::input::EstimateError>
gorder_EstimateError_try_from(value) ==
    IF ~value.estimate_error THEN Ok(None)
    ELSE map_some(map_err(EstimateError_new(value.n_blocks,
                                            non_empty(value.output_convergence)),
                          "InvalidEstimateError"))

\* impl From<MembraneNormal> for Axis: defined for the three axes only
Axis_from(normal) == normal

\* the override of the leaflets never attached
add_normal_never(method, normal) == method

\* fn add_normal inside the conversion of the leaflet classification
add_normal(method, normal) ==
    IF is_some(normal)
    THEN [method EXCEPT !.membrane_normal = Some(Axis_from(unwrap(normal)))]
    ELSE method

\* impl TryFrom<&GuiAnalysis> for Option<gorder::input::LeafletClassification>
gorder_LeafletClassification_try_from(value) ==
    LET params == value.leaflet_classification_params
        m == value.leaflet_classification_method
    IN CASE m = "None" -> Ok(None)
         [] m \in {"Global", "Local", "Individual"}
              /\ is_some(params.membrane_normal)
              /\ unwrap(params.membrane_normal) \notin Axes -> Panic
         [] m = "Global" ->
                Ok(Some(add_normal([kind |-> "Global",
                                    membrane |-> params.global_params.membrane,
                                    heads |-> params.global_params.heads,
                                    frequency |-> params.frequency,
                                    membrane_normal |-> None],
                                   params.membrane_normal)))
         [] m = "Local" ->
                Ok(Some(add_normal([kind |-> "Local",
                                    membrane |-> params.local_params.membrane,
                                    heads |-> params.local_params.heads,
                                    radius |-> params.local_params.radius,
                                    frequency |-> params.frequency,
                                    membrane_normal |-> None],
                                   params.membrane_normal)))
         [] m = "Individual" ->
                Ok(Some(add_normal([kind |-> "Individual",
                                    heads |-> params.individual_params.heads,
                                    methyls |-> params.individual_params.methyls,
                                    frequency |-> params.frequency,
                                    membrane_normal |-> None],
                                   params.membrane_normal)))
         [] m = "Clustering" ->
                Ok(Some([kind |-> "Clustering",
                         heads |-> params.clustering_params.heads,
                         frequency |-> params.frequency]))
         [] m = "FromFile" ->
                Ok(Some([kind |-> "FromFile",
                         file |-> params.from_file_params.file,
                         frequency |-> params.frequency]))
         [] m = "FromNdx" ->
                Ok(Some([kind |-> "FromNdx",
                         ndx |-> params.from_ndx_params.ndx,
                         heads |-> params.from_ndx_params.heads,
                         upper_leaflet |-> params.from_ndx_params.upper_leaflet,
                         lower_leaflet |-> params.from_ndx_params.lower_leaflet,
                         frequency |-> params.frequency]))

\* impl From<&GeomSelectionParams> for gorder::input::GeomReference
gorder_GeomReference_from(value) ==
    CASE value.reference_type = "Point" -> [kind |-> "Point", point |-> value.ref_point]
      [] value.reference_type = "Selection" ->
            [kind |-> "Selection", selection |-> value.ref_selection]
      [] value.reference_type = "Center" -> [kind |-> "Center"]

\* impl TryFrom<&GuiAnalysis> for Option<gorder::input::Geometry>
gorder_Geometry_try_from(value) ==
    LET params == value.geom_selection_params
        reference == gorder_GeomReference_from(params)
    IN CASE value.geom_selection = "None" -> Ok(None)
         [] value.geom_selection = "Cuboid" ->
                map_some(map_err(
                    Geometry_cuboid(reference,
                                    <<params.cuboid.minx, params.cuboid.maxx>>,
                                    <<params.cuboid.miny, params.cuboid.maxy>>,
                                    <<params.cuboid.minz, params.cuboid.maxz>>),
                    "InvalidGeometryParams"))
         [] value.geom_selection = "Cylinder" ->
                map_some(map_err(
                    Geometry_cylinder(reference, params.cylinder.radius,
                                      <<params.cylinder.start, params.cylinder.end>>,
                                      params.cylinder.orientation),
                    "InvalidGeometryParams"))
         [] value.geom_selection = "Sphere" ->
                map_some(map_err(Geometry_sphere(reference, params.sphere.radius),
                                 "InvalidGeometryParams"))

\* the match on value.dimensions[i]: GridSpan::manual(..).unwrap() panics on Err
grid_span(dimension, manual) ==
    IF dimension = "Auto" THEN Ok([kind |-> "Auto"])
    ELSE IF is_ok(GridSpan_manual(manual.start, manual.end))
         THEN GridSpan_manual(manual.start, manual.end)
         ELSE Panic

\* impl TryFrom<&OrderMapsParams> for Option<gorder::input::OrderMap>
gorder_OrderMap_try_from(value) ==
    LET dimension_x == grid_span(value.dimensions[1], value.x_manual)
        dimension_y == grid_span(value.dimensions[2], value.y_manual)
    IN CASE ~value.calculate_maps -> Ok(None)
         [] value.calculate_maps /\ ~is_ok(dimension_x) -> Panic
         [] value.calculate_maps /\ is_ok(dimension_x) /\ ~is_ok(dimension_y) -> Panic
         [] OTHER ->
            IF is_some(value.plane) /\ unwrap(value.plane) = "Unknown"
            THEN Err("InvalidOrderMapParams", "unknown plane")
            ELSE map_some(map_err(
                    OrderMapBuilder_build(
                        [output_directory |-> Some(value.output_directory),
                         bin_size |-> value.bin_size,
                         dim |-> <<dimension_x.value, dimension_y.value>>,
                         min_samples |-> value.min_samples,
                         plane |-> value.plane]),
                    "InvalidOrderMapParams"))

\* the conversion with the geometry converted before the membrane normal
Analysis_try_from_geometry_first(value) ==
    LET analysis_type == gorder_AnalysisType_from(value)
        membrane_normal == gorder_MembraneNormal_try_from(value)
        estimate_error == gorder_EstimateError_try_from(value.estimate_error_params)
        leaflets == gorder_LeafletClassification_try_from(value)
        geometry == gorder_Geometry_try_from(value)
        ordermap == gorder_OrderMap_try_from(value.ordermaps_params)
    IN CASE ~is_ok(geometry) -> geometry
         [] ~is_ok(membrane_normal) -> membrane_normal
         [] ~is_ok(estimate_error) -> estimate_error
         [] ~is_ok(leaflets) -> leaflets
         [] ~is_ok(ordermap) -> ordermap
         [] OTHER ->
            map_err(AnalysisBuilder_build(
                [structure |-> value.structure,
                 trajectory |-> value.trajectory,
                 output_yaml |-> value.output.output_yaml,
                 analysis_type |-> analysis_type,
                 output_tab |-> non_empty(value.output.output_tab),
                 output_csv |-> non_empty(value.output.output_csv),
                 output_xvg |-> non_empty(value.output.output_xvg),
                 index |-> non_empty(value.ndx),
                 bonds |-> non_empty(value.bonds),
                 begin |-> value.frame_selection_params.begin,
                 end |-> value.frame_selection_params.end,
                 step |-> value.frame_selection_params.step,
                 membrane_normal |-> membrane_normal.value,
                 estimate_error |-> estimate_error.value,
                 leaflets |-> leaflets.value,
                 geometry |-> geometry.value,
                 map |-> ordermap.value,
                 min_samples |-> value.other_params.min_samples,
                 n_threads |-> value.other_params.n_threads,
                 handle_pbc |-> value.other_params.handle_pbc,
                 silent |-> value.other_params.silent,
                 overwrite |-> value.other_params.overwrite]),
                "InvalidAnalysisParams")

\* impl TryFrom<&GuiAnalysis> for Analysis: the sub-conversions run in the order
\* of the function body and the first `?` that meets an Err returns it
Analysis_try_from(value) ==
    LET analysis_type == gorder_AnalysisType_from(value)
        membrane_normal == gorder_MembraneNormal_try_from(value)
        estimate_error == gorder_EstimateError_try_from(value.estimate_error_params)
        leaflets == gorder_LeafletClassification_try_from(value)
        geometry == gorder_Geometry_try_from(value)
        ordermap == gorder_OrderMap_try_from(value.ordermaps_params)
    IN CASE ~is_ok(membrane_normal) -> membrane_normal
         [] ~is_ok(estimate_error) -> estimate_error
         [] ~is_ok(leaflets) -> leaflets
         [] ~is_ok(geometry) -> geometry
         [] ~is_ok(ordermap) -> ordermap
         [] OTHER ->
            map_err(AnalysisBuilder_build(
                [structure |-> value.structure,
                 trajectory |-> value.trajectory,
                 output_yaml |-> value.output.output_yaml,
                 analysis_type |-> analysis_type,
                 output_tab |-> non_empty(value.output.output_tab),
                 output_csv |-> non_empty(value.output.output_csv),
                 output_xvg |-> non_empty(value.output.output_xvg),
                 index |-> non_empty(value.ndx),
                 bonds |-> non_empty(value.bonds),
                 begin |-> value.frame_selection_params.begin,
                 end |-> value.frame_selection_params.end,
                 step |-> value.frame_selection_params.step,
                 membrane_normal |-> membrane_normal.value,
                 estimate_error |-> estimate_error.value,
                 leaflets |-> leaflets.value,
                 geometry |-> geometry.value,
                 map |-> ordermap.value,
                 min_samples |-> value.other_params.min_samples,
                 n_threads |-> value.other_params.n_threads,
                 handle_pbc |-> value.other_params.handle_pbc,
                 silent |-> value.other_params.silent,
                 overwrite |-> value.other_params.overwrite]),
                "InvalidAnalysisParams")

-----------------------------------------------------------------------------
(* The user interface: one action per widget of a pass                     *)

\* no export result is pending
NoExport == [tag |-> "none"]

\* no import has been attempted
NoImport == [tag |-> "none"]

\* every pass renders the trajectory list (specify_multiple_input_files in
\* update): an empty list gets one empty entry
render(g) == [g EXCEPT !.trajectory = IF Len(@) = 0 THEN <<"">> ELSE @]

\* a widget changed the aggregate in a pass: a pending export result is out of date
Edit(g) ==
    /\ gui' = render(g)
    /\ exp' = NoExport
    /\ UNCHANGED <<doc, imp, running, workers>>

AnalysisTypes == {"AAOrder", "CGOrder", "UAOrder"}

MembraneNormals == {"X", "Y", "Z", "Dynamic", "FromFile"}

LeafletClassifications ==
    {"None", "Global", "Local", "Individual", "Clustering", "FromFile", "FromNdx"}

GeomSelections == {"None", "Cuboid", "Cylinder", "Sphere"}

GeomReferenceTypes == {"Point", "Center", "Selection"}

Planes == {"XY", "YZ", "XZ"}

\* radio buttons that also reset the selections of the analysis types
SelectAnalysisType_clearing(t) ==
    Edit([gui EXCEPT !.analysis_type = t,
                     !.analysis_type_params = DefaultAnalysisTypeParams])

\* specify_analysis_type: the radio buttons of the analysis type
SelectAnalysisType(t) == Edit([gui EXCEPT !.analysis_type = t])

\* specify_analysis_type: the text fields of the atomistic analysis
EditAAParams ==
    /\ gui.analysis_type = "AAOrder"
    /\ \E f \in {"heavy_atoms", "hydrogens"}, s \in Strings :
          Edit([gui EXCEPT !.analysis_type_params.aa_params[f] = s])

\* specify_analysis_type: the text fields of the united-atom analysis
EditUAParams ==
    /\ gui.analysis_type = "UAOrder"
    /\ \E f \in {"saturated", "unsaturated", "ignore"}, s \in Strings :
          Edit([gui EXCEPT !.analysis_type_params.ua_params[f] = s])

\* specify_analysis_type: the text field of the coarse-grained analysis
EditCGParams ==
    /\ gui.analysis_type = "CGOrder"
    /\ \E s \in Strings : Edit([gui EXCEPT !.analysis_type_params.cg_params.beads = s])

\* specify_membrane_normal: the radio buttons of the membrane normal
SelectMembraneNormal(n) == Edit([gui EXCEPT !.membrane_normal = n])

\* specify_membrane_normal: the lipid heads of the dynamic normal
EditDynamicNormalHeads ==
    /\ gui.membrane_normal = "Dynamic"
    /\ \E s \in Strings : Edit([gui EXCEPT !.dynamic_normal_params.heads = s])

\* specify_membrane_normal: the radius of the dynamic normal
EditDynamicNormalRadius ==
    /\ gui.membrane_normal = "Dynamic"
    /\ \E r \in Radii : Edit([gui EXCEPT !.dynamic_normal_params.radius = r])

\* specify_membrane_normal: the file of the normals
EditFromFileNormals ==
    /\ gui.membrane_normal = "FromFile"
    /\ \E s \in Strings : Edit([gui EXCEPT !.from_file_normals = s])

\* specify_multiple_input_files: an empty list gets one empty entry when rendered
rendered_files(target) == IF Len(target) = 0 THEN <<"">> ELSE target

\* Vec::swap(i, j)
swap(target, i, j) ==
    [k \in 1..Len(target) |->
        IF k = i THEN target[j] ELSE IF k = j THEN target[i] ELSE target[k]]

\* a removal that always takes the last entry
remove_last(target, i) == SubSeq(target, 1, Len(target) - 1)

\* Vec::remove(i)
remove(target, i) ==
    [k \in 1..(Len(target) - 1) |-> IF k < i THEN target[k] ELSE target[k + 1]]

\* the lists a file dialog returns: at least one path, none of them empty
PickedFiles == UNION {[1..n -> Strings \ {""}] : n \in 1..MaxFiles}

\* specify_multiple_input_files: the lists one pass over `target` can leave
specify_multiple_input_files(target) ==
    LET t == rendered_files(target)
    IN  {t}
        \cup {[t EXCEPT ![i] = s] : i \in 1..Len(t), s \in Strings}
        \cup (IF ~any_empty(t) /\ Len(t) < MaxFiles THEN {Append(t, "")} ELSE {})
        \cup (IF Len(t) > 1
              THEN {remove(t, i) : i \in 1..Len(t)}
                   \cup {swap(t, i, i - 1) : i \in 2..Len(t)}
                   \cup {swap(t, i, i + 1) : i \in 1..(Len(t) - 1)}
              ELSE {})
        \cup PickedFiles

\* the pass that follows a change of the leaflet method renders the new
\* method's widgets: the NDX list of FromNdx gets its first (empty) entry
render_leaflets(g) ==
    IF g.leaflet_classification_method = "FromNdx"
    THEN [g EXCEPT !.leaflet_classification_params.from_ndx_params.ndx =
                        rendered_files(@)]
    ELSE g

\* specify_leaflet_classification: the combo box of the method
SelectLeafletMethod(variant) ==
    Edit(render_leaflets([gui EXCEPT !.leaflet_classification_method = variant]))

\* LeafletGlobalParams::specify
EditLeafletGlobalParams ==
    /\ gui.leaflet_classification_method = "Global"
    /\ \E f \in {"membrane", "heads"}, s \in Strings :
          Edit([gui EXCEPT !.leaflet_classification_params.global_params[f] = s])

\* LeafletLocalParams::specify: the two selections
EditLeafletLocalParams ==
    /\ gui.leaflet_classification_method = "Local"
    /\ \E f \in {"membrane", "heads"}, s \in Strings :
          Edit([gui EXCEPT !.leaflet_classification_params.local_params[f] = s])

\* LeafletLocalParams::specify: the radius
EditLeafletLocalRadius ==
    /\ gui.leaflet_classification_method = "Local"
    /\ \E r \in Radii :
          Edit([gui EXCEPT !.leaflet_classification_params.local_params.radius = r])

\* LeafletIndividualParams::specify
EditLeafletIndividualParams ==
    /\ gui.leaflet_classification_method = "Individual"
    /\ \E f \in {"heads", "methyls"}, s \in Strings :
          Edit([gui EXCEPT !.leaflet_classification_params.individual_params[f] = s])

\* LeafletClusteringParams::specify
EditLeafletClusteringParams ==
    /\ gui.leaflet_classification_method = "Clustering"
    /\ \E s \in Strings :
          Edit([gui EXCEPT !.leaflet_classification_params.clustering_params.heads = s])

\* LeafletFromFileParams::specify
EditLeafletFromFileParams ==
    /\ gui.leaflet_classification_method = "FromFile"
    /\ \E s \in Strings :
          Edit([gui EXCEPT !.leaflet_classification_params.from_file_params.file = s])

\* LeafletFromNdxParams::specify: the three text fields
EditLeafletFromNdxParams ==
    /\ gui.leaflet_classification_method = "FromNdx"
    /\ \E f \in {"heads", "upper_leaflet", "lower_leaflet"}, s \in Strings :
          Edit([gui EXCEPT !.leaflet_classification_params.from_ndx_params[f] = s])

\* LeafletFromNdxParams::specify: the list of NDX files
EditLeafletNdxFiles ==
    /\ gui.leaflet_classification_method = "FromNdx"
    /\ \E t \in specify_multiple_input_files(
                    gui.leaflet_classification_params.from_ndx_params.ndx) :
          Edit([gui EXCEPT !.leaflet_classification_params.from_ndx_params.ndx = t])

\* specify_frequency: the radio button and the N shown for a stored frequency
raw_frequency(frequency) ==
    CASE frequency = Once -> <<"Once", 0>>
      [] frequency # Once /\ frequency[2] = 1 -> <<"Every", 1>>
      [] OTHER -> <<"EveryN", frequency[2]>>

\* specify_frequency without the coercion of n to 2
specify_frequency_uncoerced(frequency, click, drag) ==
    LET shown == raw_frequency(frequency)
        raw == IF click = "none" THEN shown[1] ELSE click
        n == IF drag = 0 THEN shown[2] ELSE drag
    IN CASE raw = "Once" -> Once
         [] raw = "Every" -> Every(1)
         [] raw = "EveryN" -> IF n = 0 THEN <<"Panic">> ELSE Every(n)

\* specify_frequency: the frequency one pass stores, given the stored frequency,
\* the radio button clicked ("none": no click) and the value the drag value of
\* N is set to (0: not touched).  Frequency::every(0) is an Err, unwrapped:
\* <<"Panic">>.
specify_frequency(frequency, click, drag) ==
    LET shown == raw_frequency(frequency)
        raw == IF click = "none" THEN shown[1] ELSE click
        coerced == IF shown[2] < 2 THEN 2 ELSE shown[2]
        n == IF drag = 0 THEN coerced ELSE drag
    IN CASE raw = "Once" -> Once
         [] raw = "Every" -> Every(1)
         [] raw = "EveryN" -> IF n = 0 THEN <<"Panic">> ELSE Every(n)

\* a pass over the frequency of the active leaflet method: a click on a radio
\* button, or a drag of N (range 1..=MAX) while "every Nth frame" is shown
SpecifyFrequency ==
    /\ gui.leaflet_classification_method # "None"
    /\ \E click \in {"none", "Once", "Every", "EveryN"}, drag \in 0..MaxN :
          LET stored == gui.leaflet_classification_params.frequency
              frequency == specify_frequency(stored, click, drag)
          IN /\ drag # 0 => click = "none" /\ raw_frequency(stored)[1] = "EveryN"
             /\ frequency # <<"Panic">>
             /\ Edit([gui EXCEPT !.leaflet_classification_params.frequency = frequency])

\* specify_leaflet_membrane_normal: the normal its radio buttons show
raw_normal(g) ==
    IF is_some(g.leaflet_classification_params.membrane_normal)
    THEN unwrap(g.leaflet_classification_params.membrane_normal)
    ELSE g.membrane_normal

\* radio buttons that deselect the axis when it is clicked again (toggle_radio)
SelectLeafletMembraneNormal_toggling ==
    /\ gui.leaflet_classification_method \in {"Global", "Local", "Individual"}
    /\ \E axis \in Axes :
          Edit([gui EXCEPT !.leaflet_classification_params.membrane_normal =
                                IF @ = Some(axis) THEN None ELSE Some(axis)])

\* specify_leaflet_membrane_normal: a click on one of the three radio buttons
SelectLeafletMembraneNormal ==
    /\ gui.leaflet_classification_method \in {"Global", "Local", "Individual"}
    /\ \E axis \in Axes :
          Edit([gui EXCEPT !.leaflet_classification_params.membrane_normal = Some(axis)])

\* specify_geometry: the combo box of the shape
SelectGeometry(variant) == Edit([gui EXCEPT !.geom_selection = variant])

\* CylinderParams::specify: the radius
EditCylinderRadius ==
    /\ gui.geom_selection = "Cylinder"
    /\ \E r \in Radii : Edit([gui EXCEPT !.geom_selection_params.cylinder.radius = r])

\* SphereParams::specify: the radius
EditSphereRadius ==
    /\ gui.geom_selection = "Sphere"
    /\ \E r \in Radii : Edit([gui EXCEPT !.geom_selection_params.sphere.radius = r])

\* GeomSelectionParams::specify_span: the span one pass leaves, given the
\* drag value that is dragged ("none": neither) and the value v it is dragged
\* to.  Each drag value keeps its value inside its range (start below the end,
\* end above the start as it is after the first drag value); a drag leaves an
\* infinite value infinite, and change_from_infinity then replaces it.
specify_span(start, end, widget, v) ==
    LET infinite(x) == x \in {INFINITY, NEG_INFINITY}
        s0 == IF start > end THEN end ELSE start
        s1 == IF widget = "start" /\ ~infinite(s0)
              THEN (IF v > end THEN end ELSE v) ELSE s0
        e0 == IF end < s1 THEN s1 ELSE end
        e1 == IF widget = "end" /\ ~infinite(e0)
              THEN (IF v < s1 THEN s1 ELSE v) ELSE e0
        s2 == IF infinite(s1) /\ widget = "start" THEN 0 ELSE s1
        e2 == IF infinite(e1) /\ widget = "end"
              THEN (IF ~infinite(s2) THEN s2 ELSE 0) ELSE e1
    IN <<s2, e2>>

\* CuboidParams::specify: the spans along x, y and z
EditCuboidSpan ==
    /\ gui.geom_selection = "Cuboid"
    /\ \E axis \in {<<"minx", "maxx">>, <<"miny", "maxy">>, <<"minz", "maxz">>},
          widget \in {"none", "start", "end"}, v \in (0 - MaxCoordinate)..0 :
          LET c == gui.geom_selection_params.cuboid
              span == specify_span(c[axis[1]], c[axis[2]], widget, v)
          IN Edit([gui EXCEPT !.geom_selection_params.cuboid[axis[1]] = span[1],
                              !.geom_selection_params.cuboid[axis[2]] = span[2]])

\* CylinderParams::specify: the span along the axis of the cylinder
EditCylinderSpan ==
    /\ gui.geom_selection = "Cylinder"
    /\ \E widget \in {"none", "start", "end"}, v \in (0 - MaxCoordinate)..0 :
          LET c == gui.geom_selection_params.cylinder
              span == specify_span(c.start, c.end, widget, v)
          IN Edit([gui EXCEPT !.geom_selection_params.cylinder.start = span[1],
                              !.geom_selection_params.cylinder.end = span[2]])

\* specify_frame_selection: the drag values of begin (range 0..=end) and of
\* end (range begin..=INFINITY); a dragged infinite end becomes begin + 100000
EditFrameSelection ==
    \E widget \in {"begin", "end"}, v \in 0..MaxCoordinate :
        LET f == gui.frame_selection_params
        IN IF widget = "begin"
           THEN Edit([gui EXCEPT !.frame_selection_params.begin =
                                    IF v > f.end THEN f.end ELSE v])
           ELSE Edit([gui EXCEPT !.frame_selection_params.end =
                                    IF f.end = INFINITY THEN f.begin + 100000
                                    ELSE IF v < f.begin THEN f.begin ELSE v])

\* specify_dimension: the drag values of a manual dimension, start with the
\* range -MAX..=end and end with the range start..=MAX
EditManualDimension ==
    /\ gui.ordermaps_params.calculate_maps
    /\ \E i \in {1, 2}, widget \in {"start", "end"}, v \in 0..MaxCoordinate :
          LET manual == IF i = 1 THEN gui.ordermaps_params.x_manual
                        ELSE gui.ordermaps_params.y_manual
              dragged == IF widget = "start"
                         THEN [manual EXCEPT !.start = IF v > manual.end THEN manual.end ELSE v]
                         ELSE [manual EXCEPT !.end = IF v < manual.start THEN manual.start ELSE v]
          IN /\ gui.ordermaps_params.dimensions[i] = "Manual"
             /\ IF i = 1
                THEN Edit([gui EXCEPT !.ordermaps_params.x_manual = dragged])
                ELSE Edit([gui EXCEPT !.ordermaps_params.y_manual = dragged])

\* GeomSelectionParams::specify_reference: the radio buttons
SelectReferenceType ==
    /\ gui.geom_selection # "None"
    /\ \E t \in GeomReferenceTypes :
          Edit([gui EXCEPT !.geom_selection_params.reference_type = t])

\* GeomSelectionParams::specify_reference: the selection of the reference
EditReferenceSelection ==
    /\ gui.geom_selection # "None"
    /\ gui.geom_selection_params.reference_type = "Selection"
    /\ \E s \in Strings : Edit([gui EXCEPT !.geom_selection_params.ref_selection = s])

\* specify_ordermaps: the check box
ToggleOrdermaps ==
    Edit([gui EXCEPT !.ordermaps_params.calculate_maps = ~@])

\* specify_ordermaps: the output directory
EditOrdermapsDirectory ==
    /\ gui.ordermaps_params.calculate_maps
    /\ \E s \in Strings : Edit([gui EXCEPT !.ordermaps_params.output_directory = s])

\* specify_ordermaps: the plane shown when none has been picked
raw_plane(g) ==
    IF is_some(g.ordermaps_params.plane) THEN unwrap(g.ordermaps_params.plane)
    ELSE CASE g.membrane_normal = "X" -> "YZ"
           [] g.membrane_normal = "Y" -> "XZ"
           [] g.membrane_normal = "Z" -> "XY"
           [] g.membrane_normal \in {"Dynamic", "FromFile"} -> "Unknown"

\* radio buttons that store the plane that is displayed
SelectPlane_displayed ==
    /\ gui.ordermaps_params.calculate_maps
    /\ Edit([gui EXCEPT !.ordermaps_params.plane = Some(raw_plane(gui))])

\* specify_ordermaps: a click on one of the three radio buttons of the plane
SelectPlane ==
    /\ gui.ordermaps_params.calculate_maps
    /\ \E plane \in Planes : Edit([gui EXCEPT !.ordermaps_params.plane = Some(plane)])

\* specify_dimension: the radio buttons "automatic" and "manual"
SelectDimension ==
    /\ gui.ordermaps_params.calculate_maps
    /\ \E i \in {1, 2}, dim \in {"Auto", "Manual"} :
          Edit([gui EXCEPT !.ordermaps_params.dimensions[i] = dim])

\* specify_bin_size
EditBinSize ==
    /\ gui.ordermaps_params.calculate_maps
    /\ \E i \in {1, 2}, b \in Radii :
          Edit([gui EXCEPT !.ordermaps_params.bin_size[i] = b])

\* the text fields / file pickers of the structure and of the output YAML file
EditStructure == \E s \in Strings : Edit([gui EXCEPT !.structure = s])

EditOutputYaml == \E s \in Strings : Edit([gui EXCEPT !.output.output_yaml = s])

\* specify_multiple_input_files on the trajectory list
EditTrajectory ==
    \E t \in specify_multiple_input_files(gui.trajectory) :
        Edit([gui EXCEPT !.trajectory = t])

\* specify_multiple_input_files, the pass in which the file dialog returned
\* Some(paths): the list is cleared and filled with the paths, whatever their
\* number, and stays so until the end of the pass, where check_sanity is called
PickTrajectory ==
    \E paths \in PickedFiles \cup {<< >>} :
        /\ gui' = [gui EXCEPT !.trajectory = paths]
        /\ exp' = NoExport
        /\ UNCHANGED <<doc, imp, running, workers>>

\* an Import that resets the aggregate when the conversion fails
Import_resetting ==
    /\ imp = NoImport
    /\ LET result == GuiAnalysis_try_from(doc)
       IN IF is_ok(result)
          THEN gui' = result.value /\ imp' = [tag |-> "Ok"]
          ELSE gui' = DefaultGuiAnalysis /\ imp' = result
    /\ exp' = NoExport
    /\ UNCHANGED <<doc, running, workers>>

\* Import of the document `doc`: the aggregate is replaced only on success
Import ==
    /\ imp = NoImport
    /\ LET result == GuiAnalysis_try_from(doc)
       IN IF is_ok(result)
          THEN gui' = result.value /\ imp' = [tag |-> "Ok"]
          ELSE gui' = gui /\ imp' = result
    /\ exp' = NoExport
    /\ UNCHANGED <<doc, running, workers>>

\* Export of the aggregate
Export ==
    /\ exp = NoExport
    /\ exp' = Analysis_try_from(gui)
    /\ UNCHANGED <<gui, doc, imp, running, workers>>

\* a button that is enabled while a run is in progress
smart_button_reentrant(enabled, is_running) == enabled

\* GuiAnalysis::smart_button: whether the button it adds is enabled
smart_button(enabled, is_running) == IF ~is_running THEN enabled ELSE FALSE

\* a click on the enabled Run button: the aggregate is exported; when the
\* export is Ok the shared flag is set and the worker is spawned
Run ==
    /\ smart_button(check_sanity(gui), running)
    /\ exp' = Analysis_try_from(gui)
    /\ IF is_ok(Analysis_try_from(gui))
       THEN running' = TRUE /\ workers' = workers + 1
       ELSE UNCHANGED <<running, workers>>
    /\ UNCHANGED <<gui, doc, imp>>

\* the worker finishes and clears the shared flag
Finish ==
    /\ workers > 0
    /\ workers' = workers - 1
    /\ running' = FALSE
    /\ UNCHANGED <<gui, doc, imp, exp>>

-----------------------------------------------------------------------------
(* The documents given to Import: documents the engine accepts             *)

\* the radii and bin sizes of a document: positive
DocRadii == 1..MaxRadius

DocBase ==
    [structure |-> "a",
     trajectory |-> <<"a">>,
     output_yaml |-> "a",
     analysis_type |-> [kind |-> "AAOrder", heavy_atoms |-> "a", hydrogens |-> "a"],
     output_tab |-> None,
     output_csv |-> None,
     output_xvg |-> None,
     index |-> None,
     bonds |-> None,
     begin |-> 0,
     end |-> INFINITY,
     step |-> 1,
     membrane_normal |-> [kind |-> "Static", axis |-> "Z"],
     estimate_error |-> None,
     leaflets |-> None,
     geometry |-> None,
     map |-> None,
     min_samples |-> 1,
     n_threads |-> 1,
     handle_pbc |-> TRUE,
     silent |-> FALSE,
     overwrite |-> FALSE]

DocAnalysisTypes ==
    {[kind |-> "AAOrder", heavy_atoms |-> "a", hydrogens |-> "a"],
     [kind |-> "CGOrder", beads |-> "a"],
     [kind |-> "UAOrder", saturated |-> Some("a"), unsaturated |-> None, ignore |-> None]}

\* the input files: the trajectory list and the optional index file
DocInputs ==
    {<<(<<"a">>), None>>, <<(<<"a", "b">>), Some("a")>>, <<(<<"b", "a">>), None>>}

DocMembraneNormals ==
    {[kind |-> "Static", axis |-> "Z"], [kind |-> "Static", axis |-> "X"],
     [kind |-> "FromFile", file |-> "a"], [kind |-> "FromMap"]}
    \cup {[kind |-> "Dynamic", heads |-> "a", radius |-> r] : r \in DocRadii}

DocLeaflets ==
    {None, Some([kind |-> "FromMap"]),
     Some([kind |-> "Global", membrane |-> "a", heads |-> "a",
           frequency |-> Every(1), membrane_normal |-> None]),
     Some([kind |-> "Global", membrane |-> "a", heads |-> "a",
           frequency |-> Once, membrane_normal |-> Some("X")]),
     Some([kind |-> "Individual", heads |-> "a", methyls |-> "a",
           frequency |-> Every(2), membrane_normal |-> None]),
     Some([kind |-> "Clustering", heads |-> "a", frequency |-> Every(1)]),
     Some([kind |-> "FromFile", file |-> "a", frequency |-> Once]),
     Some([kind |-> "FromNdx", ndx |-> <<"a", "b">>, heads |-> "a",
           upper_leaflet |-> "a", lower_leaflet |-> "a", frequency |-> Every(1)])}
    \cup {Some([kind |-> "Local", membrane |-> "a", heads |-> "a", radius |-> r,
                frequency |-> Every(1), membrane_normal |-> Some("Z")]) : r \in DocRadii}

DocEstimateErrors ==
    {None, Some([n_blocks |-> 5, output_convergence |-> None]),
     Some([n_blocks |-> 2, output_convergence |-> Some("a")])}

DocGeometries ==
    {None,
     Some([kind |-> "Cuboid", reference |-> [kind |-> "Point", point |-> <<1, 2, 3>>],
           xdim |-> <<NEG_INFINITY, INFINITY>>, ydim |-> <<0, 1>>,
           zdim |-> <<NEG_INFINITY, INFINITY>>])}
    \cup {Some([kind |-> "Cylinder",
                reference |-> [kind |-> "Selection", selection |-> "a"],
                radius |-> r, span |-> <<NEG_INFINITY, INFINITY>>,
                orientation |-> "X"]) : r \in DocRadii}
    \cup {Some([kind |-> "Sphere", reference |-> [kind |-> "Center"], radius |-> r]) :
             r \in DocRadii}

DocOrderMaps ==
    {None}
    \cup {Some([output_directory |-> d, bin_size |-> <<b, 1>>,
                dim |-> <<[kind |-> "Manual", start |-> 0, end |-> 1], [kind |-> "Auto"]>>,
                min_samples |-> 1, plane |-> p]) :
             d \in {None, Some("a")}, b \in DocRadii, p \in {None, Some("XZ")}}

Docs ==
    {[DocBase EXCEPT !.analysis_type = a, !.trajectory = i[1], !.index = i[2],
                     !.membrane_normal = n, !.leaflets = l, !.estimate_error = e,
                     !.geometry = g, !.map = m] :
        a \in DocAnalysisTypes, i \in DocInputs, n \in DocMembraneNormals,
        l \in DocLeaflets, e \in DocEstimateErrors, g \in DocGeometries,
        m \in DocOrderMaps}

-----------------------------------------------------------------------------
(* Specifications                                                          *)

\* the state after construction: GuiAnalysis::default(), nothing imported
Init ==
    /\ gui = DefaultGuiAnalysis
    /\ doc = None
    /\ imp = NoImport
    /\ exp = NoExport
    /\ running = FALSE
    /\ workers = 0

\* Import of a document followed by Export
InitConvert ==
    /\ gui = DefaultGuiAnalysis
    /\ doc \in Docs
    /\ imp = NoImport
    /\ exp = NoExport
    /\ running = FALSE
    /\ workers = 0

NextConvert == Import \/ Export

SpecConvert == InitConvert /\ [][NextConvert]_vars

\* the widgets behind check_sanity: files, analysis type, geometry
Next ==
    \/ EditStructure
    \/ EditOutputYaml
    \/ EditTrajectory
    \/ EditAAParams
    \/ \E variant \in GeomSelections : SelectGeometry(variant)
    \/ EditCylinderRadius
    \/ EditSphereRadius
    \/ SelectReferenceType
    \/ EditReferenceSelection

Spec == Init /\ [][Next]_vars

\* the analysis type and its parameters
NextAnalysisType ==
    \/ \E t \in AnalysisTypes : SelectAnalysisType(t)
    \/ EditAAParams
    \/ EditUAParams
    \/ EditCGParams

SpecAnalysisType == Init /\ [][NextAnalysisType]_vars

\* the leaflet method, its parameters and its membrane normal
NextLeafletNormal ==
    \/ \E variant \in LeafletClassifications : SelectLeafletMethod(variant)
    \/ \E n \in {"Z", "Dynamic"} : SelectMembraneNormal(n)
    \/ SelectLeafletMembraneNormal
    \/ EditLeafletGlobalParams
    \/ EditLeafletLocalParams
    \/ EditLeafletIndividualParams
    \/ EditLeafletClusteringParams
    \/ EditLeafletFromFileParams

SpecLeafletNormal == Init /\ [][NextLeafletNormal]_vars

\* the leaflet method and all the parameters of the methods
NextLeaflets ==
    \/ \E variant \in LeafletClassifications : SelectLeafletMethod(variant)
    \/ \E n \in {"Z", "FromFile"} : SelectMembraneNormal(n)
    \/ EditLeafletGlobalParams
    \/ EditLeafletLocalParams
    \/ EditLeafletLocalRadius
    \/ EditLeafletIndividualParams
    \/ EditLeafletClusteringParams
    \/ EditLeafletFromFileParams
    \/ EditLeafletFromNdxParams
    \/ EditLeafletNdxFiles

SpecLeaflets == Init /\ [][NextLeaflets]_vars

\* the membrane normal and the ordermaps
NextOrdermaps ==
    \/ \E n \in MembraneNormals : SelectMembraneNormal(n)
    \/ EditDynamicNormalHeads
    \/ EditDynamicNormalRadius
    \/ EditFromFileNormals
    \/ ToggleOrdermaps
    \/ EditOrdermapsDirectory
    \/ SelectPlane
    \/ EditBinSize

SpecOrdermaps == Init /\ [][NextOrdermaps]_vars

\* the shape of the region and its reference
NextGeometry ==
    \/ \E variant \in GeomSelections : SelectGeometry(variant)
    \/ EditCylinderRadius
    \/ EditSphereRadius
    \/ SelectReferenceType
    \/ EditReferenceSelection

SpecGeometry == Init /\ [][NextGeometry]_vars

\* Export of an aggregate whose radii and bin sizes have been dragged
NextExport ==
    \/ \E n \in {"Z", "Dynamic"} : SelectMembraneNormal(n)
    \/ EditDynamicNormalRadius
    \/ \E variant \in {"None", "Cylinder", "Sphere"} : SelectGeometry(variant)
    \/ EditCylinderRadius
    \/ EditSphereRadius
    \/ ToggleOrdermaps
    \/ EditBinSize
    \/ \E variant \in {"None", "Local"} : SelectLeafletMethod(variant)
    \/ EditLeafletLocalRadius
    \/ Export

SpecExport == Init /\ [][NextExport]_vars

\* the selectors of the variants, and parameters of some of the variants
NextSelectors ==
    \/ \E t \in AnalysisTypes : SelectAnalysisType(t)
    \/ \E variant \in LeafletClassifications : SelectLeafletMethod(variant)
    \/ \E n \in {"Z", "Dynamic", "FromFile"} : SelectMembraneNormal(n)
    \/ \E variant \in GeomSelections : SelectGeometry(variant)
    \/ SelectReferenceType
    \/ ToggleOrdermaps
    \/ SelectDimension
    \/ EditAAParams
    \/ EditLeafletClusteringParams

SpecSelectors == Init /\ [][NextSelectors]_vars

\* the frequency of the leaflet assignment
NextFrequency ==
    \/ \E variant \in LeafletClassifications : SelectLeafletMethod(variant)
    \/ SpecifyFrequency
    \/ EditLeafletClusteringParams

SpecFrequency == Init /\ [][NextFrequency]_vars

\* edits of the aggregate, then one attempt to import a document
InitImport ==
    /\ gui = DefaultGuiAnalysis
    /\ doc \in {[DocBase EXCEPT !.membrane_normal = n, !.leaflets = l] :
                    n \in DocMembraneNormals, l \in DocLeaflets}
    /\ imp = NoImport
    /\ exp = NoExport
    /\ running = FALSE
    /\ workers = 0

NextImport ==
    \/ imp = NoImport /\ EditStructure
    \/ imp = NoImport /\ EditOutputYaml
    \/ imp = NoImport /\ \E t \in AnalysisTypes : SelectAnalysisType(t)
    \/ Import

SpecImport == InitImport /\ [][NextImport]_vars

\* the Run button, the worker and the widgets behind check_sanity
NextRun ==
    \/ EditStructure
    \/ EditOutputYaml
    \/ EditTrajectory
    \/ EditAAParams
    \/ \E n \in {"Z", "Dynamic"} : SelectMembraneNormal(n)
    \/ EditDynamicNormalRadius
    \/ Run
    \/ Finish

SpecRun == Init /\ [][NextRun]_vars

\* the leaflet block: its method, its frequency and its membrane normal, with
\* an Import of a document and the Export of the aggregate
NextLeafletBlock ==
    \/ \E variant \in LeafletClassifications : SelectLeafletMethod(variant)
    \/ \E n \in MembraneNormals : SelectMembraneNormal(n)
    \/ SelectLeafletMembraneNormal
    \/ SpecifyFrequency
    \/ Import
    \/ Export

SpecLeafletBlock == InitImport /\ [][NextLeafletBlock]_vars

\* the spans of the region
NextSpans ==
    \/ \E variant \in {"None", "Cuboid", "Cylinder"} : SelectGeometry(variant)
    \/ EditCuboidSpan
    \/ EditCylinderSpan

SpecSpans == Init /\ [][NextSpans]_vars

\* the frame selection and the manual dimensions of the order maps
NextRanges ==
    \/ EditFrameSelection
    \/ ToggleOrdermaps
    \/ SelectDimension
    \/ EditManualDimension

SpecRanges == Init /\ [][NextRanges]_vars

\* Export as a function of the aggregate: the values of the struct it is
\* applied to.  The first family varies the selectors of the optional blocks
\* and the numbers the builders of the engine test (the radii, the bin size,
\* the number of blocks, the two ends of a manual dimension); the second one
\* varies the paths and the selections of the analysis type; the third one
\* varies the shape of the region and its reference.
InitValues ==
    /\ gui \in
              {[DefaultGuiAnalysis EXCEPT
                   !.structure = "a", !.trajectory = <<"a">>, !.output.output_yaml = "a",
                   !.analysis_type_params.aa_params = [heavy_atoms |-> "a", hydrogens |-> "a"],
                   !.membrane_normal = n,
                   !.dynamic_normal_params = [heads |-> "a", radius |-> r[1]],
                   !.estimate_error_params.estimate_error = e[1],
                   !.estimate_error_params.n_blocks = e[2],
                   !.leaflet_classification_method = l,
                   !.leaflet_classification_params.local_params =
                        [membrane |-> "a", heads |-> "a", radius |-> r[2]],
                   !.leaflet_classification_params.clustering_params.heads = "a",
                   !.geom_selection = g,
                   !.geom_selection_params.cylinder.radius = r[3],
                   !.ordermaps_params.calculate_maps = m[1],
                   !.ordermaps_params.output_directory = "a",
                   !.ordermaps_params.bin_size = <<r[4], 1>>,
                   !.ordermaps_params.dimensions = <<m[2], "Auto">>,
                   !.ordermaps_params.x_manual = [start |-> m[3], end |-> 1]] :
                  n \in {"Z", "Dynamic", "FromFile"}, r \in [1..4 -> Radii],
                  e \in BOOLEAN \X {1, 5},
                  l \in LeafletClassifications,
                  g \in GeomSelections,
                  m \in BOOLEAN \X {"Auto", "Manual"} \X {0, 2}}
              \cup
              {[DefaultGuiAnalysis EXCEPT
                   !.structure = f[6], !.trajectory = t, !.output.output_yaml = f[7],
                   !.output.output_tab = f[1], !.output.output_csv = f[2],
                   !.output.output_xvg = f[3], !.ndx = f[4], !.bonds = f[5],
                   !.analysis_type = a,
                   !.analysis_type_params.aa_params = [heavy_atoms |-> "a", hydrogens |-> "a"],
                   !.analysis_type_params.cg_params.beads = "a",
                   !.analysis_type_params.ua_params =
                        [saturated |-> u[1], unsaturated |-> u[2], ignore |-> u[3]]] :
                  t \in {<<"a">>, <<"a", "b">>, <<"b", "a">>},
                  f \in [1..7 -> Strings], a \in AnalysisTypes, u \in [1..3 -> Strings]}
              \cup
              {[DefaultGuiAnalysis EXCEPT
                   !.structure = "a", !.trajectory = <<"a">>, !.output.output_yaml = "a",
                   !.analysis_type_params.aa_params = [heavy_atoms |-> "a", hydrogens |-> "a"],
                   !.geom_selection = g,
                   !.geom_selection_params.reference_type = t,
                   !.geom_selection_params.ref_selection = s,
                   !.geom_selection_params.cylinder.radius = r,
                   !.geom_selection_params.sphere.radius = r] :
                  g \in GeomSelections, t \in GeomReferenceTypes, s \in Strings, r \in Radii}
    /\ doc = None
    /\ imp = NoImport
    /\ exp = NoExport
    /\ running = FALSE
    /\ workers = 0

SpecValues == InitValues /\ [][Export]_vars

-----------------------------------------------------------------------------
(* Properties                                                              *)

\* C1 (as amended): Import fails if and only if the document holds an inline
\* map; an inline map of the normals yields FromMapNormals, also when the
\* leaflets are an inline map too; an inline map of the leaflets yields
\* FromMapLeaflets when the normals are not an inline map; on failure the
\* result carries no aggregate and the aggregate of the application is the one
\* it was before.
C1_ImportFailsOnInlineMaps ==
    LET normals_map == doc.membrane_normal.kind = "FromMap"
        leaflets_map == is_some(doc.leaflets) /\ unwrap(doc.leaflets).kind = "FromMap"
    IN imp # NoImport =>
        /\ imp.tag = "Ok" <=> ~normals_map /\ ~leaflets_map
        /\ normals_map => imp = Err("FromMapNormals", "")
        /\ leaflets_map /\ ~normals_map => imp = Err("FromMapLeaflets", "")
        /\ imp.tag # "Ok" => DOMAIN imp = {"tag", "error"} /\ gui = DefaultGuiAnalysis

\* C1 witness: an import that failed on the inline map of the leaflets
C1_Witness ==
    /\ imp = Err("FromMapLeaflets", "")
    /\ unwrap(doc.leaflets).kind = "FromMap"
    /\ gui = DefaultGuiAnalysis

\* C1 as stated: an inline map of the leaflets always yields FromMapLeaflets
C1_AsStated ==
    LET normals_map == doc.membrane_normal.kind = "FromMap"
        leaflets_map == is_some(doc.leaflets) /\ unwrap(doc.leaflets).kind = "FromMap"
    IN imp # NoImport =>
        /\ imp.tag = "Ok" <=> ~normals_map /\ ~leaflets_map
        /\ normals_map => imp = Err("FromMapNormals", "")
        /\ leaflets_map => imp = Err("FromMapLeaflets", "")
        /\ imp.tag # "Ok" => DOMAIN imp = {"tag", "error"} /\ gui = DefaultGuiAnalysis

\* C2 as stated: for a document without inline maps, Export after Import
\* succeeds and returns the document, field by field.
C2_RoundTrip ==
    imp.tag = "Ok" /\ exp # NoExport => exp = Ok(doc)

\* C3 as stated: check_sanity is true exactly when the five group predicates
\* hold and the structure, every trajectory path and the output YAML path are
\* non-empty; an aggregate whose active geometry is invalid is not runnable.
C3_CheckSanity ==
    /\ check_sanity(gui) <=>
          /\ check_analysis_params_sanity(gui)
          /\ check_leaflets_sanity(gui)
          /\ check_membrane_normal_sanity(gui)
          /\ check_geometry_sanity(gui)
          /\ check_ordermaps_sanity(gui)
          /\ ~is_empty(gui.structure)
          /\ \A i \in 1..Len(gui.trajectory) : ~is_empty(gui.trajectory[i])
          /\ ~is_empty(gui.output.output_yaml)
    /\ ~check_geometry_sanity(gui) => ~check_sanity(gui)

\* C4: with the method Global, Local or Individual and the method's own fields
\* filled in, check_leaflets_sanity is false when the global normal is Dynamic
\* and the override is None, and true when the override is X, Y or Z; for the
\* other methods the result depends neither on the override nor on the normal.
C4_LeafletOverride ==
    LET m == gui.leaflet_classification_method
        p == gui.leaflet_classification_params
        own == CASE m = "Global" -> p.global_params.membrane # ""
                                    /\ p.global_params.heads # ""
                 [] m = "Local" -> p.local_params.membrane # ""
                                   /\ p.local_params.heads # ""
                                   /\ p.local_params.radius > 0
                 [] m = "Individual" -> p.individual_params.heads # ""
                                        /\ p.individual_params.methyls # ""
                 [] OTHER -> FALSE
    IN /\ own /\ gui.membrane_normal = "Dynamic" /\ p.membrane_normal = None
              => ~check_leaflets_sanity(gui)
       /\ own /\ p.membrane_normal \in {Some(a) : a \in Axes}
              => check_leaflets_sanity(gui)
       /\ m \notin {"Global", "Local", "Individual"} =>
              \A n \in MembraneNormals, o \in {None} \cup {Some(a) : a \in Axes} :
                  check_leaflets_sanity(
                      [gui EXCEPT !.membrane_normal = n,
                                  !.leaflet_classification_params.membrane_normal = o])
                  = check_leaflets_sanity(gui)

\* C4 witness: a Global method with its fields filled in, a Dynamic normal and
\* an override picked by a click: the predicate is true
C4_Witness ==
    /\ gui.leaflet_classification_method = "Global"
    /\ gui.leaflet_classification_params.global_params = [membrane |-> "a", heads |-> "a"]
    /\ gui.membrane_normal = "Dynamic"
    /\ is_some(gui.leaflet_classification_params.membrane_normal)
    /\ check_leaflets_sanity(gui)

\* C5 as stated: with ordermaps enabled and no plane chosen,
\* check_ordermaps_sanity is false for the Dynamic and for the FromFile normal;
\* it is true, the other fields being valid, once a plane is chosen, and with
\* a static normal without any plane.
C5_OrdermapsPlane ==
    LET o == gui.ordermaps_params
        others_valid == o.output_directory # "" /\ o.bin_size[1] > 0 /\ o.bin_size[2] > 0
    IN o.calculate_maps =>
        /\ o.plane = None /\ gui.membrane_normal \in {"Dynamic", "FromFile"}
              => ~check_ordermaps_sanity(gui)
        /\ o.plane # None /\ others_valid => check_ordermaps_sanity(gui)
        /\ gui.membrane_normal \in Axes /\ others_valid => check_ordermaps_sanity(gui)

\* C6 as stated: check_analysis_params_sanity is true exactly when the active
\* kind's required selections are non-empty: heavy atoms and hydrogens
\* (atomistic), beads (coarse-grained), saturated and unsaturated (united-atom).
C6_AnalysisParams ==
    LET p == gui.analysis_type_params
        required ==
            CASE gui.analysis_type = "AAOrder" ->
                    p.aa_params.heavy_atoms # "" /\ p.aa_params.hydrogens # ""
              [] gui.analysis_type = "CGOrder" -> p.cg_params.beads # ""
              [] gui.analysis_type = "UAOrder" ->
                    p.ua_params.saturated # "" /\ p.ua_params.unsaturated # ""
    IN /\ check_analysis_params_sanity(gui) <=> required
       /\ main_check_analysis_params_sanity(gui) <=> required

\* C7 as stated: with a non-dynamic normal, check_leaflets_sanity is true
\* exactly when the required fields of the active method are present (for Local:
\* membrane, heads and a radius greater than 0).
C7_LeafletFields ==
    LET m == gui.leaflet_classification_method
        p == gui.leaflet_classification_params
        required ==
            CASE m = "None" -> TRUE
              [] m = "Global" -> p.global_params.membrane # "" /\ p.global_params.heads # ""
              [] m = "Local" -> /\ p.local_params.membrane # ""
                                /\ p.local_params.heads # ""
                                /\ p.local_params.radius > 0
              [] m = "Individual" -> p.individual_params.heads # ""
                                     /\ p.individual_params.methyls # ""
              [] m = "Clustering" -> p.clustering_params.heads # ""
              [] m = "FromFile" -> p.from_file_params.file # ""
              [] m = "FromNdx" ->
                    /\ p.from_ndx_params.heads # ""
                    /\ p.from_ndx_params.upper_leaflet # ""
                    /\ p.from_ndx_params.lower_leaflet # ""
                    /\ \A i \in 1..Len(p.from_ndx_params.ndx) : p.from_ndx_params.ndx[i] # ""
    IN gui.membrane_normal # "Dynamic" =>
        /\ check_leaflets_sanity(gui) <=> required
        /\ main_check_leaflets_sanity(gui) <=> required

\* C8 as stated: check_membrane_normal_sanity is true for X, Y and Z; for
\* Dynamic exactly when the heads are non-empty and the radius is greater than
\* 0; for FromFile exactly when the path of the normals file is non-empty.
C8_MembraneNormal ==
    LET required ==
            CASE gui.membrane_normal \in Axes -> TRUE
              [] gui.membrane_normal = "Dynamic" ->
                    gui.dynamic_normal_params.heads # ""
                    /\ gui.dynamic_normal_params.radius > 0
              [] gui.membrane_normal = "FromFile" -> gui.from_file_normals # ""
    IN /\ check_membrane_normal_sanity(gui) <=> required
       /\ main_check_membrane_normal_sanity(gui) <=> required

\* C9: check_geometry_sanity is true for the shape None; for a Cuboid, a
\* Cylinder or a Sphere it is true exactly when (the shape is a Cuboid or the
\* radius of the active shape is greater than 0) and (the reference is a point
\* or the box center, or the selection of the reference is non-empty).
C9_Geometry ==
    LET p == gui.geom_selection_params
        radius == IF gui.geom_selection = "Cylinder" THEN p.cylinder.radius
                  ELSE p.sphere.radius
    IN /\ gui.geom_selection = "None" => check_geometry_sanity(gui)
       /\ gui.geom_selection # "None" =>
            (check_geometry_sanity(gui) <=>
                /\ gui.geom_selection = "Cuboid" \/ radius > 0
                /\ p.reference_type \in {"Point", "Center"} \/ p.ref_selection # "")

\* C9 witness: a sphere of radius 0 around a non-empty selection is rejected
C9_Witness ==
    /\ gui.geom_selection = "Sphere"
    /\ gui.geom_selection_params.sphere.radius = 0
    /\ gui.geom_selection_params.reference_type = "Selection"
    /\ gui.geom_selection_params.ref_selection = "a"
    /\ ~check_geometry_sanity(gui)

\* C10 (as amended): Export never returns Ok when an active block holds a zero
\* radius or a zero bin size; the error is the one of the first block that
\* fails in the order of Export: InvalidMembraneNormal for the Dynamic normal,
\* else InvalidGeometryParams for the Cylinder or Sphere, else
\* InvalidOrderMapParams for the bin size, else InvalidAnalysisParams for the
\* radius of the Local leaflet method.
C10_ExportZero ==
    LET dynamic0 == gui.membrane_normal = "Dynamic" /\ gui.dynamic_normal_params.radius = 0
        shape0 == \/ gui.geom_selection = "Cylinder"
                     /\ gui.geom_selection_params.cylinder.radius = 0
                  \/ gui.geom_selection = "Sphere"
                     /\ gui.geom_selection_params.sphere.radius = 0
        bin0 == /\ gui.ordermaps_params.calculate_maps
                /\ \E i \in {1, 2} : gui.ordermaps_params.bin_size[i] = 0
        local0 == /\ gui.leaflet_classification_method = "Local"
                  /\ gui.leaflet_classification_params.local_params.radius = 0
    IN exp # NoExport =>
        /\ dynamic0 \/ shape0 \/ bin0 \/ local0 => exp.tag = "Err"
        /\ dynamic0 => exp.error.kind = "InvalidMembraneNormal"
        /\ shape0 /\ ~dynamic0 => exp.error.kind = "InvalidGeometryParams"
        /\ bin0 /\ ~shape0 /\ ~dynamic0 => exp.error.kind = "InvalidOrderMapParams"
        /\ local0 /\ ~bin0 /\ ~shape0 /\ ~dynamic0 =>
              exp.error.kind = "InvalidAnalysisParams"

\* C10 witness: the export of an aggregate whose only fault is the zero radius
\* of its active cylinder
C10_Witness ==
    /\ gui.geom_selection = "Cylinder"
    /\ gui.geom_selection_params.cylinder.radius = 0
    /\ gui.membrane_normal = "Z"
    /\ ~gui.ordermaps_params.calculate_maps
    /\ exp.tag = "Err"
    /\ exp.error.kind = "InvalidGeometryParams"

\* C10 as stated: each zero value yields the error of its own block
C10_AsStated ==
    LET dynamic0 == gui.membrane_normal = "Dynamic" /\ gui.dynamic_normal_params.radius = 0
        shape0 == \/ gui.geom_selection = "Cylinder"
                     /\ gui.geom_selection_params.cylinder.radius = 0
                  \/ gui.geom_selection = "Sphere"
                     /\ gui.geom_selection_params.sphere.radius = 0
        bin0 == /\ gui.ordermaps_params.calculate_maps
                /\ \E i \in {1, 2} : gui.ordermaps_params.bin_size[i] = 0
        local0 == /\ gui.leaflet_classification_method = "Local"
                  /\ gui.leaflet_classification_params.local_params.radius = 0
    IN exp # NoExport =>
        /\ dynamic0 \/ shape0 \/ bin0 \/ local0 => exp.tag = "Err"
        /\ dynamic0 => exp.error.kind = "InvalidMembraneNormal"
        /\ shape0 => exp.error.kind = "InvalidGeometryParams"
        /\ bin0 => exp.error.kind = "InvalidOrderMapParams"

C12_ExportOrder ==
    /\ [](exp # NoExport =>
            LET r == <<gorder_MembraneNormal_try_from(gui),
                       gorder_EstimateError_try_from(gui.estimate_error_params),
                       gorder_LeafletClassification_try_from(gui),
                       gorder_Geometry_try_from(gui),
                       gorder_OrderMap_try_from(gui.ordermaps_params)>>
                failed == {i \in 1..5 : ~is_ok(r[i])}
            IN /\ failed # {} =>
                    exp = r[CHOOSE i \in failed : \A j \in failed : i <= j]
               /\ failed = {} =>
                    is_ok(exp) \/ (is_err(exp) /\ exp.error.kind = "InvalidAnalysisParams")
               /\ ~is_ok(exp) => "value" \notin DOMAIN exp)
    /\ [][exp' # exp => gui' = gui]_vars

\* C12 witness: an invalid dynamic normal together with an invalid cylinder:
\* the error is the one of the membrane normal
C12_Witness ==
    /\ gui.membrane_normal = "Dynamic"
    /\ gui.dynamic_normal_params.radius = 0
    /\ gui.geom_selection = "Cylinder"
    /\ gui.geom_selection_params.cylinder.radius = 0
    /\ is_err(exp)
    /\ exp.error.kind = "InvalidMembraneNormal"

\* C13: an aggregate and any aggregate that has the same selectors and differs
\* from it in parameters of inactive variants only give the same result for
\* every validity predicate, for check_sanity and for Export: the result of
\* Export for the second aggregate is the one Export returned for the first.
\* The second aggregate is the first with one inactive block, or all of them,
\* overwritten.
C13_InactiveParams ==
    LET p == gui.leaflet_classification_params
        o == gui.ordermaps_params
        q == gui.geom_selection_params
        m == gui.leaflet_classification_method
        changes ==
            {<<gui.analysis_type # "AAOrder",
               [h \in {"analysis_type_params"} |->
                    [gui.analysis_type_params EXCEPT
                        !.aa_params = [heavy_atoms |-> "", hydrogens |-> "b"]]]>>,
             <<gui.analysis_type # "CGOrder",
               [h \in {"analysis_type_params"} |->
                    [gui.analysis_type_params EXCEPT
                        !.cg_params.beads = IF @ = "" THEN "b" ELSE ""]]>>,
             <<gui.analysis_type # "UAOrder",
               [h \in {"analysis_type_params"} |->
                    [gui.analysis_type_params EXCEPT
                        !.ua_params = [saturated |-> "b", unsaturated |-> "",
                                       ignore |-> "b"]]]>>,
             <<gui.membrane_normal # "Dynamic",
               [h \in {"dynamic_normal_params"} |-> [heads |-> "", radius |-> 0]]>>,
             <<gui.membrane_normal # "FromFile",
               [h \in {"from_file_normals"} |-> "b"]>>,
             <<m # "Global",
               [h \in {"leaflet_classification_params"} |->
                    [p EXCEPT !.global_params = [membrane |-> "", heads |-> "b"]]]>>,
             <<m # "Local",
               [h \in {"leaflet_classification_params"} |->
                    [p EXCEPT !.local_params =
                        [membrane |-> "b", heads |-> "", radius |-> 0]]]>>,
             <<m # "Individual",
               [h \in {"leaflet_classification_params"} |->
                    [p EXCEPT !.individual_params = [heads |-> "", methyls |-> "b"]]]>>,
             <<m # "Clustering",
               [h \in {"leaflet_classification_params"} |->
                    [p EXCEPT !.clustering_params.heads = IF @ = "" THEN "b" ELSE ""]]>>,
             <<m # "FromFile",
               [h \in {"leaflet_classification_params"} |->
                    [p EXCEPT !.from_file_params.file = "b"]]>>,
             <<m # "FromNdx",
               [h \in {"leaflet_classification_params"} |->
                    [p EXCEPT !.from_ndx_params =
                        [heads |-> "b", ndx |-> <<"">>,
                         upper_leaflet |-> "", lower_leaflet |-> "b"]]]>>,
             <<m \notin {"Global", "Local", "Individual"},
               [h \in {"leaflet_classification_params"} |->
                    [p EXCEPT !.membrane_normal = IF @ = None THEN Some("X") ELSE None]]>>,
             <<m = "None",
               [h \in {"leaflet_classification_params"} |->
                    [p EXCEPT !.frequency = IF @ = Once THEN Every(2) ELSE Once]]>>,
             <<gui.geom_selection # "Cuboid",
               [h \in {"geom_selection_params"} |->
                    [q EXCEPT !.cuboid.minx = 1, !.cuboid.maxx = 0]]>>,
             <<gui.geom_selection # "Cylinder",
               [h \in {"geom_selection_params"} |->
                    [q EXCEPT !.cylinder.radius = IF @ = 0 THEN 1 ELSE 0,
                              !.cylinder.start = 1, !.cylinder.end = 0]]>>,
             <<gui.geom_selection # "Sphere",
               [h \in {"geom_selection_params"} |->
                    [q EXCEPT !.sphere.radius = IF @ = 0 THEN 1 ELSE 0]]>>,
             <<gui.geom_selection = "None",
               [h \in {"geom_selection_params"} |->
                    [q EXCEPT !.reference_type = "Selection", !.ref_selection = ""]]>>,
             <<q.reference_type # "Selection",
               [h \in {"geom_selection_params"} |->
                    [q EXCEPT !.ref_selection = IF @ = "" THEN "b" ELSE ""]]>>,
             <<q.reference_type # "Point",
               [h \in {"geom_selection_params"} |-> [q EXCEPT !.ref_point = <<1, 2, 3>>]]>>,
             <<~o.calculate_maps,
               [h \in {"ordermaps_params"} |->
                    [o EXCEPT !.output_directory = "", !.plane = Some("Unknown"),
                              !.bin_size = <<0, 0>>, !.min_samples = 0,
                              !.dimensions = <<"Manual", "Manual">>,
                              !.x_manual = [start |-> 2, end |-> 1],
                              !.y_manual = [start |-> 2, end |-> 1]]]>>,
             <<o.dimensions[1] = "Auto",
               [h \in {"ordermaps_params"} |->
                    [o EXCEPT !.x_manual = [start |-> 2, end |-> 1]]]>>,
             <<o.dimensions[2] = "Auto",
               [h \in {"ordermaps_params"} |->
                    [o EXCEPT !.y_manual = [start |-> 2, end |-> 1]]]>>,
             <<~gui.estimate_error_params.estimate_error,
               [h \in {"estimate_error_params"} |->
                    [gui.estimate_error_params EXCEPT
                        !.n_blocks = 1, !.output_convergence = "b"]]>>}
        inactive == {c[2] : c \in {c \in changes : c[1]}}
        with(c) == [f \in DOMAIN gui |-> IF f \in DOMAIN c THEN c[f] ELSE gui[f]]
        everything ==
            [gui EXCEPT
                !.analysis_type_params =
                    [aa_params |-> IF gui.analysis_type # "AAOrder"
                                   THEN [heavy_atoms |-> "", hydrogens |-> "b"]
                                   ELSE @.aa_params,
                     cg_params |-> IF gui.analysis_type # "CGOrder"
                                   THEN [beads |-> "b"] ELSE @.cg_params,
                     ua_params |-> IF gui.analysis_type # "UAOrder"
                                   THEN [saturated |-> "b", unsaturated |-> "",
                                         ignore |-> "b"]
                                   ELSE @.ua_params],
                !.dynamic_normal_params =
                    IF gui.membrane_normal # "Dynamic"
                    THEN [heads |-> "", radius |-> 0] ELSE @,
                !.from_file_normals = IF gui.membrane_normal # "FromFile" THEN "b" ELSE @,
                !.leaflet_classification_params =
                    [global_params |-> IF m # "Global"
                                       THEN [membrane |-> "", heads |-> "b"]
                                       ELSE @.global_params,
                     local_params |-> IF m # "Local"
                                      THEN [membrane |-> "b", heads |-> "", radius |-> 0]
                                      ELSE @.local_params,
                     individual_params |-> IF m # "Individual"
                                           THEN [heads |-> "", methyls |-> "b"]
                                           ELSE @.individual_params,
                     clustering_params |-> IF m # "Clustering"
                                           THEN [heads |-> "b"] ELSE @.clustering_params,
                     from_file_params |-> IF m # "FromFile"
                                          THEN [file |-> "b"] ELSE @.from_file_params,
                     from_ndx_params |-> IF m # "FromNdx"
                                         THEN [heads |-> "b", ndx |-> <<"">>,
                                               upper_leaflet |-> "", lower_leaflet |-> "b"]
                                         ELSE @.from_ndx_params,
                     frequency |-> IF m = "None" THEN Once ELSE @.frequency,
                     membrane_normal |-> IF m \notin {"Global", "Local", "Individual"}
                                         THEN Some("X") ELSE @.membrane_normal],
                !.geom_selection_params =
                    [cuboid |-> IF gui.geom_selection # "Cuboid"
                                THEN [@.cuboid EXCEPT !.minx = 1, !.maxx = 0]
                                ELSE @.cuboid,
                     cylinder |-> IF gui.geom_selection # "Cylinder"
                                  THEN [@.cylinder EXCEPT !.radius = 0, !.start = 1, !.end = 0]
                                  ELSE @.cylinder,
                     sphere |-> IF gui.geom_selection # "Sphere"
                                THEN [radius |-> 0] ELSE @.sphere,
                     reference_type |-> IF gui.geom_selection = "None"
                                        THEN "Selection" ELSE @.reference_type,
                     ref_point |-> IF gui.geom_selection = "None" \/ q.reference_type # "Point"
                                   THEN <<1, 2, 3>> ELSE @.ref_point,
                     ref_selection |-> IF \/ gui.geom_selection = "None"
                                          \/ q.reference_type # "Selection"
                                       THEN "" ELSE @.ref_selection],
                !.ordermaps_params =
                    IF ~o.calculate_maps
                    THEN [@ EXCEPT !.output_directory = "", !.plane = Some("Unknown"),
                                   !.bin_size = <<0, 0>>, !.min_samples = 0,
                                   !.dimensions = <<"Manual", "Manual">>,
                                   !.x_manual = [start |-> 2, end |-> 1],
                                   !.y_manual = [start |-> 2, end |-> 1]]
                    ELSE [@ EXCEPT !.x_manual = IF o.dimensions[1] = "Auto"
                                                THEN [start |-> 2, end |-> 1] ELSE @,
                                   !.y_manual = IF o.dimensions[2] = "Auto"
                                                THEN [start |-> 2, end |-> 1] ELSE @],
                !.estimate_error_params =
                    IF ~@.estimate_error
                    THEN [@ EXCEPT !.n_blocks = 1, !.output_convergence = "b"] ELSE @]
        others == {with(c) : c \in inactive} \cup {everything}
        same(g) ==
            /\ check_analysis_params_sanity(g) = check_analysis_params_sanity(gui)
            /\ check_leaflets_sanity(g) = check_leaflets_sanity(gui)
            /\ check_membrane_normal_sanity(g) = check_membrane_normal_sanity(gui)
            /\ check_geometry_sanity(g) = check_geometry_sanity(gui)
            /\ check_ordermaps_sanity(g) = check_ordermaps_sanity(gui)
            /\ check_sanity(g) = check_sanity(gui)
            /\ main_check_sanity(g) = main_check_sanity(gui)
            /\ Analysis_try_from(g) = exp
    IN exp # NoExport => \A g \in others : same(g)

\* C13 witness: an exported atomistic aggregate with a cuboid and without
\* ordermaps; the coarse-grained beads, the radius of the sphere and the bin
\* size, all inactive, take other values and Export returns the same document
C13_Witness ==
    /\ gui.analysis_type = "AAOrder"
    /\ gui.geom_selection = "Cuboid"
    /\ ~gui.ordermaps_params.calculate_maps
    /\ is_ok(exp)
    /\ exp = Analysis_try_from(
                [gui EXCEPT !.analysis_type_params.cg_params.beads = "b",
                            !.geom_selection_params.sphere.radius = 0,
                            !.ordermaps_params.bin_size = <<0, 0>>])

\* C14 (as amended): a pass in which a selector changes (analysis type,
\* leaflet method, membrane normal, shape, reference type, mode of a dimension
\* of the ordermaps) leaves everything but the selectors as it was, with one
\* exception: when the method becomes FromNdx and the list of NDX files is
\* empty, the list gets one empty entry.  The aggregate has been displayed
\* before (its trajectory list is rendered).
C14_SelectorsOnly ==
    [][LET selectors(g) ==
               <<g.analysis_type, g.leaflet_classification_method, g.membrane_normal,
                 g.geom_selection, g.geom_selection_params.reference_type,
                 g.ordermaps_params.dimensions>>
           blank(g) ==
               [g EXCEPT !.analysis_type = "",
                         !.leaflet_classification_method = "",
                         !.membrane_normal = "",
                         !.geom_selection = "",
                         !.geom_selection_params.reference_type = "",
                         !.ordermaps_params.dimensions = <<"", "">>]
       IN selectors(gui') # selectors(gui) /\ Len(gui.trajectory) > 0 =>
            IF /\ gui'.leaflet_classification_method = "FromNdx"
               /\ gui.leaflet_classification_params.from_ndx_params.ndx = << >>
            THEN blank(gui') =
                    blank([gui EXCEPT
                              !.leaflet_classification_params.from_ndx_params.ndx = <<"">>])
            ELSE blank(gui') = blank(gui)]_vars

\* C14 witness: the selections of the atomistic analysis were filled in and the
\* analysis type was changed afterwards: the selections are still there
C14_Witness ==
    /\ gui.analysis_type = "CGOrder"
    /\ gui.analysis_type_params.aa_params = [heavy_atoms |-> "a", hydrogens |-> "a"]
    /\ gui.leaflet_classification_method = "FromNdx"
    /\ gui.leaflet_classification_params.clustering_params.heads = "a"

\* C14 as stated: a pass in which a selector changes leaves every parameter
\* block of every variant as it was
C14_AsStated ==
    [][LET selectors(g) ==
               <<g.analysis_type, g.leaflet_classification_method, g.membrane_normal,
                 g.geom_selection, g.geom_selection_params.reference_type,
                 g.ordermaps_params.dimensions>>
           blank(g) ==
               [g EXCEPT !.analysis_type = "",
                         !.leaflet_classification_method = "",
                         !.membrane_normal = "",
                         !.geom_selection = "",
                         !.geom_selection_params.reference_type = "",
                         !.ordermaps_params.dimensions = <<"", "">>]
       IN selectors(gui') # selectors(gui) /\ Len(gui.trajectory) > 0 =>
            blank(gui') = blank(gui)]_vars

\* C15 as stated: the import of a leaflet frequency Once and of Every(1) give
\* the same internal state, the option "every frame" with N = 1, and an export
\* without edits yields Every(1); Every(n) with n > 1 is imported as "every Nth
\* frame" with that n.
C15_FrequencyImport ==
    imp.tag = "Ok" /\ is_some(doc.leaflets) =>
        LET frequency == unwrap(doc.leaflets).frequency
            stored == gui.leaflet_classification_params.frequency
        IN /\ frequency \in {Once, Every(1)} =>
                /\ stored = Every(1)
                /\ raw_frequency(stored) = <<"Every", 1>>
                /\ is_ok(exp) => unwrap(exp.value.leaflets).frequency = Every(1)
           /\ frequency \notin {Once, Every(1)} =>
                raw_frequency(stored) = <<"EveryN", frequency[2]>>

C17_Paths ==
    exp # NoExport /\ exp.tag = "Ok" =>
        LET analysis == exp.value
            optional == {<<gui.output.output_tab, analysis.output_tab>>,
                         <<gui.output.output_csv, analysis.output_csv>>,
                         <<gui.output.output_xvg, analysis.output_xvg>>,
                         <<gui.ndx, analysis.index>>,
                         <<gui.bonds, analysis.bonds>>}
        IN /\ \A o \in optional : IF o[1] = "" THEN o[2] = None ELSE o[2] = Some(o[1])
           /\ analysis.output_yaml = gui.output.output_yaml
           /\ analysis.structure = gui.structure
           /\ analysis.trajectory = gui.trajectory

\* C17 witness: an Export with some of the optional paths empty and some not,
\* an empty YAML path and two trajectories
C17_Witness ==
    /\ exp # NoExport /\ exp.tag = "Ok"
    /\ gui.output.output_tab = "" /\ gui.output.output_csv = "a"
    /\ gui.output.output_xvg = "a" /\ gui.ndx = "" /\ gui.bonds = "a"
    /\ gui.output.output_yaml = "" /\ gui.trajectory = <<"b", "a">>

\* C18: a successful Export holds an error estimation exactly when the flag
\* estimate_error is set, a leaflet classification exactly when the leaflet
\* method is not None, a geometry exactly when the shape is not None and an
\* order map exactly when calculate_maps is set; the conversion of a block
\* whose selector is off is Ok(None) whatever the block stores, and the result
\* of Export is the one of the same aggregate with the defaults in that block.
C18_OptionalBlocks ==
    exp # NoExport =>
        LET off == [gui EXCEPT
                       !.estimate_error_params =
                            IF @.estimate_error THEN @
                            ELSE DefaultGuiAnalysis.estimate_error_params,
                       !.leaflet_classification_params =
                            IF gui.leaflet_classification_method # "None" THEN @
                            ELSE DefaultGuiAnalysis.leaflet_classification_params,
                       !.geom_selection_params =
                            IF gui.geom_selection # "None" THEN @
                            ELSE DefaultGuiAnalysis.geom_selection_params,
                       !.ordermaps_params =
                            IF @.calculate_maps THEN @
                            ELSE DefaultGuiAnalysis.ordermaps_params]
        IN /\ exp.tag = "Ok" =>
                /\ is_some(exp.value.estimate_error)
                        <=> gui.estimate_error_params.estimate_error
                /\ is_some(exp.value.leaflets)
                        <=> gui.leaflet_classification_method # "None"
                /\ is_some(exp.value.geometry) <=> gui.geom_selection # "None"
                /\ is_some(exp.value.map) <=> gui.ordermaps_params.calculate_maps
           /\ ~gui.estimate_error_params.estimate_error =>
                gorder_EstimateError_try_from(gui.estimate_error_params) = Ok(None)
           /\ gui.leaflet_classification_method = "None" =>
                gorder_LeafletClassification_try_from(gui) = Ok(None)
           /\ gui.geom_selection = "None" => gorder_Geometry_try_from(gui) = Ok(None)
           /\ ~gui.ordermaps_params.calculate_maps =>
                gorder_OrderMap_try_from(gui.ordermaps_params) = Ok(None)
           /\ Analysis_try_from(off) = exp

\* C18 witness: a successful Export of an aggregate whose four selectors are
\* off while each block stores values its builder rejects
C18_Witness ==
    /\ exp # NoExport /\ exp.tag = "Ok"
    /\ ~gui.estimate_error_params.estimate_error
    /\ gui.estimate_error_params.n_blocks = 1
    /\ gui.leaflet_classification_method = "None"
    /\ gui.leaflet_classification_params.local_params.radius = 0
    /\ gui.geom_selection = "None"
    /\ gui.geom_selection_params.cylinder.radius = 0
    /\ ~gui.ordermaps_params.calculate_maps
    /\ gui.ordermaps_params.dimensions[1] = "Manual"
    /\ gui.ordermaps_params.x_manual.start = 2
    /\ gui.ordermaps_params.bin_size[1] = 0

\* C19: for a united-atom aggregate the conversion to the analysis type of the
\* engine gives, for each of saturated, unsaturated and ignore, None when the
\* string of the editor is empty and Some(the string) otherwise, whatever the
\* other two strings are; it always yields a united-atom analysis type, and
\* that value is the analysis type of a successful Export.
C19_UnitedAtom ==
    exp # NoExport /\ gui.analysis_type = "UAOrder" =>
        LET option(s) == IF s = "" THEN None ELSE Some(s)
            with(u) == [gui EXCEPT !.analysis_type_params.ua_params =
                            [saturated |-> u[1], unsaturated |-> u[2], ignore |-> u[3]]]
        IN /\ \A u \in [1..3 -> Strings] :
                gorder_AnalysisType_from(with(u)) =
                    [kind |-> "UAOrder", saturated |-> option(u[1]),
                     unsaturated |-> option(u[2]), ignore |-> option(u[3])]
           /\ gorder_AnalysisType_from(gui).saturated =
                    option(gui.analysis_type_params.ua_params.saturated)
           /\ gorder_AnalysisType_from(gui).unsaturated =
                    option(gui.analysis_type_params.ua_params.unsaturated)
           /\ gorder_AnalysisType_from(gui).ignore =
                    option(gui.analysis_type_params.ua_params.ignore)
           /\ exp.tag = "Ok" => exp.value.analysis_type = gorder_AnalysisType_from(gui)

\* C19 witness: a united-atom Export with only `ignore` filled in
C19_Witness ==
    /\ exp # NoExport /\ exp.tag = "Ok"
    /\ gui.analysis_type = "UAOrder"
    /\ gui.analysis_type_params.ua_params =
            [saturated |-> "", unsaturated |-> "", ignore |-> "a"]
    /\ exp.value.analysis_type.ignore = Some("a")
    /\ exp.value.analysis_type.saturated = None

C21_ImportCopies ==
    imp.tag = "Ok" =>
        LET l == doc.leaflets
            p == gui.leaflet_classification_params
            D == DefaultLeafletClassificationParams
            kind == IF l = None THEN "None" ELSE unwrap(l).kind
            g == doc.geometry
            q == gui.geom_selection_params
            G == DefaultGeomSelectionParams
            shape == IF g = None THEN "None" ELSE unwrap(g).kind
            n == doc.membrane_normal
        IN /\ gui.leaflet_classification_method = kind
           /\ p.global_params =
                IF kind = "Global"
                THEN [membrane |-> unwrap(l).membrane, heads |-> unwrap(l).heads]
                ELSE D.global_params
           /\ p.local_params =
                IF kind = "Local"
                THEN [membrane |-> unwrap(l).membrane, heads |-> unwrap(l).heads,
                      radius |-> unwrap(l).radius]
                ELSE D.local_params
           /\ p.individual_params =
                IF kind = "Individual"
                THEN [heads |-> unwrap(l).heads, methyls |-> unwrap(l).methyls]
                ELSE D.individual_params
           /\ p.clustering_params =
                IF kind = "Clustering" THEN [heads |-> unwrap(l).heads]
                ELSE D.clustering_params
           /\ p.from_file_params =
                IF kind = "FromFile" THEN [file |-> unwrap(l).file]
                ELSE D.from_file_params
           /\ p.from_ndx_params =
                IF kind = "FromNdx"
                THEN [ndx |-> unwrap(l).ndx, heads |-> unwrap(l).heads,
                      upper_leaflet |-> unwrap(l).upper_leaflet,
                      lower_leaflet |-> unwrap(l).lower_leaflet]
                ELSE D.from_ndx_params
           /\ p.frequency = IF kind = "None" THEN D.frequency ELSE unwrap(l).frequency
           /\ p.membrane_normal =
                IF kind \in {"Global", "Local", "Individual"}
                THEN unwrap(l).membrane_normal ELSE D.membrane_normal
           /\ gui.geom_selection = shape
           /\ q.cuboid =
                IF shape = "Cuboid"
                THEN [minx |-> unwrap(g).xdim[1], maxx |-> unwrap(g).xdim[2],
                      miny |-> unwrap(g).ydim[1], maxy |-> unwrap(g).ydim[2],
                      minz |-> unwrap(g).zdim[1], maxz |-> unwrap(g).zdim[2]]
                ELSE G.cuboid
           /\ q.cylinder =
                IF shape = "Cylinder"
                THEN [radius |-> unwrap(g).radius, start |-> unwrap(g).span[1],
                      end |-> unwrap(g).span[2], orientation |-> unwrap(g).orientation]
                ELSE G.cylinder
           /\ q.sphere =
                IF shape = "Sphere" THEN [radius |-> unwrap(g).radius] ELSE G.sphere
           /\ q.reference_type =
                IF shape = "None" THEN G.reference_type ELSE unwrap(g).reference.kind
           /\ q.ref_point =
                IF shape # "None" /\ unwrap(g).reference.kind = "Point"
                THEN unwrap(g).reference.point ELSE G.ref_point
           /\ q.ref_selection =
                IF shape # "None" /\ unwrap(g).reference.kind = "Selection"
                THEN unwrap(g).reference.selection ELSE G.ref_selection
           /\ gui.membrane_normal = IF n.kind = "Static" THEN n.axis ELSE n.kind
           /\ gui.dynamic_normal_params =
                IF n.kind = "Dynamic" THEN [heads |-> n.heads, radius |-> n.radius]
                ELSE DefaultDynamicNormalParams
           /\ gui.from_file_normals = IF n.kind = "FromFile" THEN n.file ELSE ""
           /\ gui.estimate_error_params.estimate_error = (doc.estimate_error # None)
           /\ doc.estimate_error = None =>
                gui.estimate_error_params = DefaultEstimateErrorParams
           /\ gui.ordermaps_params.calculate_maps = (doc.map # None)
           /\ doc.map = None => gui.ordermaps_params = DefaultOrderMapsParams

\* C21 witness: a document with global leaflets assigned once along X, a cuboid
\* with infinite bounds around a point and no order maps has been imported
C21_Witness ==
    /\ imp.tag = "Ok"
    /\ doc.leaflets # None /\ unwrap(doc.leaflets).kind = "Global"
    /\ unwrap(doc.leaflets).frequency = Once
    /\ gui.leaflet_classification_params.membrane_normal = Some("X")
    /\ gui.geom_selection = "Cuboid"
    /\ gui.geom_selection_params.cuboid.maxx = INFINITY
    /\ gui.geom_selection_params.ref_point = <<1, 2, 3>>
    /\ doc.map = None

\* C22: a document with an atomistic analysis type (both selections given),
\* global leaflets (membrane and heads given), a static membrane normal, no
\* geometry and no order maps is imported to an aggregate whose analysis type
\* is AAOrder and whose global heads are the heads of the document; check_sanity
\* is true of it when the structure, every trajectory and the YAML output of
\* the document are not empty.
C22_ImportRunnable ==
    /\ imp.tag = "Ok"
    /\ doc.analysis_type.kind = "AAOrder"
    /\ doc.analysis_type.heavy_atoms # "" /\ doc.analysis_type.hydrogens # ""
    /\ doc.leaflets # None /\ unwrap(doc.leaflets).kind = "Global"
    /\ unwrap(doc.leaflets).membrane # "" /\ unwrap(doc.leaflets).heads # ""
    /\ doc.membrane_normal.kind = "Static"
    /\ doc.geometry = None /\ doc.map = None
    => /\ gui.analysis_type = "AAOrder"
       /\ gui.leaflet_classification_params.global_params.heads = unwrap(doc.leaflets).heads
       /\ (doc.structure # "" /\ ~any_empty(doc.trajectory) /\ doc.output_yaml # "")
            => check_sanity(gui) /\ main_check_sanity(gui)

\* C22 witness: such a document, with two trajectories, has been imported
C22_Witness ==
    /\ imp.tag = "Ok"
    /\ doc.analysis_type.kind = "AAOrder"
    /\ doc.leaflets # None /\ unwrap(doc.leaflets).kind = "Global"
    /\ doc.membrane_normal = [kind |-> "Static", axis |-> "X"]
    /\ doc.geometry = None /\ doc.map = None
    /\ doc.trajectory = <<"a", "b">>
    /\ gui.leaflet_classification_params.global_params.heads = "a"
    /\ check_sanity(gui)

\* C23: the trajectory list has an entry whenever it is rendered, and after
\* every pass; move up and move down exchange two neighbours and leave the
\* other entries where they are; remove deletes entry i and keeps the others in
\* order; every list a pass can leave is the list itself, the list with one
\* entry edited, with one empty entry added (only while no entry is empty),
\* with one entry removed (only while it has more than one), with two
\* neighbours exchanged, or a list of picked files.
C23_FileList ==
    LET t == rendered_files(gui.trajectory)
        n == Len(t)
        exchanged(u, i) ==
            /\ Len(u) = n /\ u[i] = t[i + 1] /\ u[i + 1] = t[i]
            /\ \A k \in (1..n) \ {i, i + 1} : u[k] = t[k]
        removed(u, i) ==
            /\ Len(u) = n - 1
            /\ \A k \in 1..(n - 1) : u[k] = IF k < i THEN t[k] ELSE t[k + 1]
    IN /\ n >= 1
       /\ Len(gui.trajectory) = 0 => gui = DefaultGuiAnalysis
       /\ \A i \in 2..n : exchanged(swap(t, i, i - 1), i - 1)
       /\ \A i \in 1..(n - 1) : exchanged(swap(t, i, i + 1), i)
       /\ \A i \in 1..n : n > 1 => removed(remove(t, i), i)
       /\ \A u \in specify_multiple_input_files(gui.trajectory) :
            \/ u = t
            \/ Len(u) = n /\ \E i \in 1..n : \A k \in (1..n) \ {i} : u[k] = t[k]
            \/ u = Append(t, "") /\ ~any_empty(t)
            \/ n > 1 /\ \E i \in 1..n : removed(u, i)
            \/ \E i \in 1..(n - 1) : exchanged(u, i)
            \/ Len(u) >= 1 /\ ~any_empty(u)

\* C23 witness: a list of three entries whose empty entry has been moved up
C23_Witness == gui.trajectory = <<"a", "", "a">>

C25_LeafletExport ==
    exp # NoExport /\ exp.tag = "Ok" =>
        LET m == gui.leaflet_classification_method
            p == gui.leaflet_classification_params
            block == exp.value.leaflets
        IN /\ block = None <=> m = "None"
           /\ gorder_LeafletClassification_try_from(gui) = Ok(block)
           /\ m # "None" =>
                /\ unwrap(block).kind = m
                /\ unwrap(block).frequency = p.frequency
                /\ IF m \in {"Global", "Local", "Individual"}
                   THEN unwrap(block).membrane_normal = p.membrane_normal
                   ELSE "membrane_normal" \notin DOMAIN unwrap(block)

\* C25 witness: an Export of clustering leaflets assigned every second frame
\* while a normal of the leaflets is stored
C25_Witness ==
    /\ exp # NoExport /\ exp.tag = "Ok"
    /\ gui.leaflet_classification_method = "Clustering"
    /\ gui.leaflet_classification_params.membrane_normal = Some("X")
    /\ gui.leaflet_classification_params.frequency = Every(2)
    /\ unwrap(exp.value.leaflets).frequency = Every(2)

\* C26: the normal of the leaflets is None or Some of X, Y, Z; once it is Some
\* it stays Some of an axis in every step but a successful Import (no widget
\* gives None, Dynamic or FromFile); the normal shown by the radio buttons is
\* the stored one when it is Some and the global membrane normal when None.
C26_LeafletNormalKept ==
    /\ [](LET stored == gui.leaflet_classification_params.membrane_normal
          IN /\ stored = None \/ \E axis \in Axes : stored = Some(axis)
             /\ stored = None => raw_normal(gui) = gui.membrane_normal
             /\ stored # None => raw_normal(gui) = unwrap(stored))
    /\ [][gui.leaflet_classification_params.membrane_normal # None =>
            \/ gui'.leaflet_classification_params.membrane_normal # None
            \/ imp' # imp /\ imp'.tag = "Ok"]_vars

\* C26 witness: the normal clicked for the leaflets is still stored after the
\* method and the global normal were changed and an Import has failed
C26_Witness ==
    /\ gui.leaflet_classification_params.membrane_normal = Some("Y")
    /\ gui.leaflet_classification_method = "FromNdx"
    /\ gui.membrane_normal = "FromFile"
    /\ imp.tag = "Err"

\* C27: after every sequence of edits from the defaults each interval of the
\* editor has its start at or below its end: the frame selection, the three
\* spans of the cuboid, the span of the cylinder and the two manual dimensions
\* of the order maps.
C27_Intervals ==
    LET c == gui.geom_selection_params.cuboid
        o == gui.ordermaps_params
    IN /\ gui.frame_selection_params.begin <= gui.frame_selection_params.end
       /\ c.minx <= c.maxx /\ c.miny <= c.maxy /\ c.minz <= c.maxz
       /\ gui.geom_selection_params.cylinder.start <= gui.geom_selection_params.cylinder.end
       /\ o.x_manual.start <= o.x_manual.end
       /\ o.y_manual.start <= o.y_manual.end


\* the plane of the ordermaps: its radio buttons, the widgets around them,
\* Import of documents with and without a plane, Export
DocPlanes == {None, Some("XY"), Some("XZ"), Some("YZ")}

InitPlane ==
    /\ gui = DefaultGuiAnalysis
    /\ doc \in {DocBase}
              \cup {[DocBase EXCEPT !.map =
                        Some([output_directory |-> Some("a"), bin_size |-> <<1, 1>>,
                              dim |-> <<[kind |-> "Auto"], [kind |-> "Auto"]>>,
                              min_samples |-> 1, plane |-> p])] : p \in DocPlanes}
    /\ imp = NoImport
    /\ exp = NoExport
    /\ running = FALSE
    /\ workers = 0

NextPlane ==
    \/ ToggleOrdermaps
    \/ SelectPlane
    \/ \E n \in {"Z", "Dynamic", "FromFile"} : SelectMembraneNormal(n)
    \/ Import
    \/ Export

SpecPlane == InitPlane /\ [][NextPlane]_vars

\* the files behind check_sanity, with the pass of the file dialog
NextPick ==
    \/ EditStructure
    \/ EditOutputYaml
    \/ EditAAParams
    \/ EditTrajectory
    \/ PickTrajectory

SpecPick == Init /\ [][NextPick]_vars

\* the default aggregate once the structure, one trajectory, the YAML output and
\* the selections of the atomistic analysis have been typed in
ReadyGuiAnalysis ==
    [DefaultGuiAnalysis EXCEPT
        !.structure = "a",
        !.trajectory = <<"a">>,
        !.output.output_yaml = "a",
        !.analysis_type_params.aa_params = [heavy_atoms |-> "a", hydrogens |-> "a"]]

InitReady ==
    /\ gui = ReadyGuiAnalysis
    /\ doc = None
    /\ imp = NoImport
    /\ exp = NoExport
    /\ running = FALSE
    /\ workers = 0

\* the blocks whose values Export hands to a builder, and Export
NextReady ==
    \/ \E n \in {"Z", "Dynamic"} : SelectMembraneNormal(n)
    \/ EditDynamicNormalHeads
    \/ EditDynamicNormalRadius
    \/ \E variant \in {"None", "Cylinder"} : SelectGeometry(variant)
    \/ EditCylinderRadius
    \/ ToggleOrdermaps
    \/ EditOrdermapsDirectory
    \/ SelectPlane
    \/ EditBinSize
    \/ \E variant \in {"None", "Local"} : SelectLeafletMethod(variant)
    \/ EditLeafletLocalParams
    \/ EditLeafletLocalRadius
    \/ Export

SpecReady == InitReady /\ [][NextReady]_vars

\* C28: in every state where check_sanity() of main.rs is true and the geometry
\* predicate holds, the last Export returned Ok: none of the conversion errors
\* can occur in a state the GUI reports as runnable.
C28_ReadyExports ==
    (exp # NoExport /\ main_check_sanity(gui) /\ check_geometry_sanity(gui))
        => is_ok(exp)

\* the same with check_sanity() calling the predicates of the modules
ReadyExports_modules ==
    (exp # NoExport /\ check_sanity(gui) /\ check_geometry_sanity(gui))
        => is_ok(exp)


\* C29: in every state reached from the default aggregate by the widgets and by
\* Imports the stored plane of the ordermaps is None, Some(XY), Some(XZ) or
\* Some(YZ), never Some(Unknown), so Export never fails with "unknown plane";
\* and a plane that is Some stays Some in every step other than an Import.
C29_Plane ==
    /\ [](gui.ordermaps_params.plane \in {None, Some("XY"), Some("XZ"), Some("YZ")})
    /\ [](exp.tag = "Err" =>
            exp.error # [kind |-> "InvalidOrderMapParams", detail |-> "unknown plane"])
    /\ [][(is_some(gui.ordermaps_params.plane) /\ imp' = imp)
            => is_some(gui'.ordermaps_params.plane)]_vars

\* C29 witness: with a normal that has no plane of its own, a plane picked
\* after a successful Import has been exported with the ordermaps
C29_Witness ==
    /\ imp.tag = "Ok"
    /\ gui.membrane_normal = "Dynamic"
    /\ gui.ordermaps_params.calculate_maps
    /\ raw_plane(gui) = "YZ"
    /\ exp.tag = "Ok"
    /\ unwrap(exp.value.map).plane = Some("YZ")


\* C30: check_sanity() is false whenever the trajectory list is empty, so the
\* Run button is never enabled for an aggregate with no trajectory file, the
\* pass in which the file dialog replaced the list included.
C30_NoTrajectory ==
    Len(gui.trajectory) = 0 =>
        /\ ~check_sanity(gui)
        /\ ~smart_button(check_sanity(gui), running)

====
